---- MODULE Spec2Model ----
(***************************************************************************)
(* Verification model of WeChat Markdown Studio: the markdown pipeline     *)
(* (packages/markdown-pipeline/src/index.ts), the theme engine             *)
(* (packages/theme-engine) and the WeChat export normalizer of the web     *)
(* studio.                                                                 *)
(*                                                                         *)
(* Strings are sequences of one-character strings.  A markup (hast) node   *)
(* is a record [type, tagName, value, props, children]; an absent property *)
(* is the empty sequence / empty string, an absent source line is 0 (the   *)
(* code tests lines by truthiness, index.ts:64 and index.ts:416).          *)
(***************************************************************************)
EXTENDS Integers, Sequences, FiniteSets, TLC

VARIABLES
  pc,        \* the operation that acted last ("input" right after construction)
  treeIn,    \* hast root children handed to the pass under check
  tree,      \* hast root children, rewritten in place by the passes
  regexLastIndex,  \* HIGHLIGHT_REGEX.lastIndex, the module-level scan cursor
  calls,     \* the render calls in flight: call id -> its arguments, position and trees
  html,      \* the markup handed to prepareWechatExportHtml
  doc,       \* the children of doc.body while the export is converting
  result,    \* what prepareWechatExportHtml returned
  issues,    \* the issues runQualityChecks has pushed so far
  lastHeadingDepth,  \* the running heading depth of runQualityChecks
  themes,    \* the theme objects the callers hold and pass by reference, by id
  ui,        \* the state of the web studio's App component
  groupIndex \* `index` of groupConsecutiveImagesPlugin while its loop runs (0-based)

vars ==
  <<pc, treeIn, tree, regexLastIndex, calls, html, doc, result, issues, lastHeadingDepth,
    themes, ui, groupIndex>>

exportVars == <<html, doc, result>>

qualityVars == <<issues, lastHeadingDepth>>

studioVars == <<themes, ui>>

\* The export and the quality checker have not been called.
ExportIdle == html = <<>> /\ doc = <<>> /\ result = <<>>

QualityIdle == issues = <<>> /\ lastHeadingDepth = 0

\* The grouping loop is not being stepped through.
ScanIdle == groupIndex = 0

\* ---------------------------------------------------------------- bounds
MaxSiblings == 3
MaxText == 7
MaxBlocks == 2
MaxImages == 5
MaxColumns == 4
MaxChecked == 3

\* ---------------------------------------------------------------- helpers
SeqsUpTo(S, n) == UNION {[1..k -> S] : k \in 0..n}

RECURSIVE Flatten(_)
Flatten(ss) == IF ss = <<>> THEN <<>> ELSE Head(ss) \o Flatten(Tail(ss))

RECURSIVE SumSeq(_)
SumSeq(s) == IF s = <<>> THEN 0 ELSE Head(s) + SumSeq(Tail(s))

Digit(d) == CASE d = 0 -> "0" [] d = 1 -> "1" [] d = 2 -> "2" [] d = 3 -> "3"
              [] d = 4 -> "4" [] d = 5 -> "5" [] d = 6 -> "6" [] d = 7 -> "7"
              [] d = 8 -> "8" [] OTHER -> "9"

DigitVal(c) == CASE c = "0" -> 0 [] c = "1" -> 1 [] c = "2" -> 2 [] c = "3" -> 3
                 [] c = "4" -> 4 [] c = "5" -> 5 [] c = "6" -> 6 [] c = "7" -> 7
                 [] c = "8" -> 8 [] OTHER -> 9

IsDigit(c) == c \in {"0", "1", "2", "3", "4", "5", "6", "7", "8", "9"}

\* String(n) for a non-negative integer: its decimal digits.
RECURSIVE NumberToString(_)
NumberToString(n) ==
  IF n < 10 THEN <<Digit(n)>> ELSE NumberToString(n \div 10) \o <<Digit(n % 10)>>

IsSpace(c) == c \in {" ", "\n"}

\* Number.parseInt(str, 10): skips leading white space, takes an optional sign
\* and the longest run of digits; NaN when there is no digit.
RECURSIVE SkipSpaces(_)
SkipSpaces(str) == IF str # <<>> /\ IsSpace(Head(str)) THEN SkipSpaces(Tail(str)) ELSE str

RECURSIVE LeadingDigits(_)
LeadingDigits(str) ==
  IF str # <<>> /\ IsDigit(Head(str)) THEN <<Head(str)>> \o LeadingDigits(Tail(str))
  ELSE <<>>

RECURSIVE DigitsValue(_, _)
DigitsValue(digits, acc) ==
  IF digits = <<>> THEN acc ELSE DigitsValue(Tail(digits), 10 * acc + DigitVal(Head(digits)))

ParseInt(str) ==
  LET s1 == SkipSpaces(str)
      signed == s1 # <<>> /\ Head(s1) \in {"-", "+"}
      s2 == IF signed THEN Tail(s1) ELSE s1
      digits == LeadingDigits(s2)
      magnitude == DigitsValue(digits, 0)
  IN IF digits = <<>> THEN [isNaN |-> TRUE, value |-> 0]
     ELSE [isNaN |-> FALSE,
           value |-> IF signed /\ Head(s1) = "-" THEN 0 - magnitude ELSE magnitude]

\* String.prototype.trim() === '' : every character is white space.
TrimIsEmpty(value) == \A i \in 1..Len(value) : IsSpace(value[i])

\* ------------------------------------------------------------ hast nodes
NoProps ==
  [className |-> "", style |-> <<>>, sourceLine |-> 0, imageCount |-> <<>>,
   columns |-> <<>>, src |-> <<>>, alt |-> <<>>, href |-> <<>>, loading |-> "",
   target |-> "", rel |-> ""]

TextNode(value) ==
  [type |-> "text", tagName |-> "", value |-> value, props |-> NoProps, children |-> <<>>]

ElementNode(tagName, props, children) ==
  [type |-> "element", tagName |-> tagName, value |-> <<>>, props |-> props,
   children |-> children]

ImgNode(src, line) ==
  ElementNode("img", [NoProps EXCEPT !.src = src, !.sourceLine = line], <<>>)

\* A raw node holds embedded markup verbatim: the tokens of its text.
RawNode(value) ==
  [type |-> "raw", tagName |-> "", value |-> value, props |-> NoProps, children |-> <<>>]

\* ----------------------------------------------------------- mdast nodes
\* [type, depth, url, alt, value, sourceLine, line, column, children]:
\* sourceLine is data.hProperties['data-source-line'], line and column are
\* position.start; 0 when absent.
MdNode(type, line, column, children) ==
  [type |-> type, depth |-> 0, url |-> <<>>, alt |-> <<>>, value |-> <<>>,
   sourceLine |-> 0, line |-> line, column |-> column, children |-> children]

MdText(value, line, column) == [MdNode("text", line, column, <<>>) EXCEPT !.value = value]

MdHeading(depth, line, children) == [MdNode("heading", line, 1, children) EXCEPT !.depth = depth]

MdImage(url, alt, line, column) ==
  [MdNode("image", line, column, <<>>) EXCEPT !.url = url, !.alt = alt]

MdLink(url, line, column, children) == [MdNode("link", line, column, children) EXCEPT !.url = url]

MdLiteral(type, value, line) == [MdNode(type, line, 1, <<>>) EXCEPT !.value = value]

\* ------------------------------------------------ front-matter stripping
IsBodyNode(node) == node.type # "yaml" /\ node.type # "toml"

IsNotYaml(node) == node.type # "yaml"

\* A filter that knows yaml blocks only.
RemarkStripFrontmatterYamlOnly(children) == SelectSeq(children, IsNotYaml)

RemarkStripFrontmatter(children) == SelectSeq(children, IsBodyNode)

\* ----------------------------------------------- source-position annotator
HighlightableTypes ==
  {"paragraph", "heading", "list", "listItem", "blockquote", "code", "image", "link",
   "table", "html", "thematicBreak"}

\* A variant that writes the start line whether or not the attribute is set.
RECURSIVE RemarkAttachSourceLineOverwrite(_)
RemarkAttachSourceLineOverwrite(children) ==
  [i \in 1..Len(children) |->
     LET node == children[i]
         below == [node EXCEPT !.children = RemarkAttachSourceLineOverwrite(node.children)]
     IN IF node.type \in HighlightableTypes /\ node.line # 0
          THEN [below EXCEPT !.sourceLine = node.line]
          ELSE below]

RECURSIVE RemarkAttachSourceLine(_)
RemarkAttachSourceLine(children) ==
  [i \in 1..Len(children) |->
     LET node == children[i]
         below == [node EXCEPT !.children = RemarkAttachSourceLine(node.children)]
     IN IF /\ node.type \in HighlightableTypes
           /\ node.line # 0
           /\ node.sourceLine = 0
          THEN [below EXCEPT !.sourceLine = node.line]
          ELSE below]

\* ---------------------------------------------------------------- lowering
\* remark-rehype with allowDangerousHtml: each structural node becomes its
\* element, data.hProperties becomes properties, html becomes a raw node,
\* front-matter nodes produce nothing, and the blocks of the root are joined
\* by line-feed text nodes.
NewlineText == TextNode(<<"\n">>)

RECURSIVE JoinWithNewlines(_)
JoinWithNewlines(nodes) ==
  IF Len(nodes) <= 1 THEN nodes
  ELSE <<Head(nodes), NewlineText>> \o JoinWithNewlines(Tail(nodes))

HeadingTag(depth) ==
  CASE depth = 1 -> "h1" [] depth = 2 -> "h2" [] depth = 3 -> "h3"
    [] depth = 4 -> "h4" [] depth = 5 -> "h5" [] OTHER -> "h6"

RECURSIVE ToHastAll(_)
ToHastOne(node) ==
  LET props == [NoProps EXCEPT !.sourceLine = node.sourceLine]
      kids == ToHastAll(node.children)
  IN CASE node.type \in {"yaml", "toml"} -> <<>>
       [] node.type = "text" -> <<TextNode(node.value)>>
       [] node.type = "html" -> <<RawNode(node.value)>>
       [] node.type = "heading" -> <<ElementNode(HeadingTag(node.depth), props, kids)>>
       [] node.type = "paragraph" -> <<ElementNode("p", props, kids)>>
       [] node.type = "blockquote" ->
            <<ElementNode("blockquote", props,
                          <<NewlineText>> \o JoinWithNewlines(kids) \o <<NewlineText>>)>>
       [] node.type = "emphasis" -> <<ElementNode("em", props, kids)>>
       [] node.type = "image" ->
            <<ElementNode("img", [props EXCEPT !.src = node.url, !.alt = node.alt], <<>>)>>
       [] node.type = "link" -> <<ElementNode("a", [props EXCEPT !.href = node.url], kids)>>
       [] node.type = "inlineCode" -> <<ElementNode("code", props, <<TextNode(node.value)>>)>>
       [] node.type = "code" ->
            <<ElementNode("pre", NoProps,
                <<ElementNode("code", props, <<TextNode(node.value \o <<"\n">>)>>)>>)>>
       [] node.type = "table" -> <<ElementNode("table", props, kids)>>
       [] node.type = "tableHead" -> <<ElementNode("thead", props, kids)>>
       [] node.type = "tableBody" -> <<ElementNode("tbody", props, kids)>>
       [] node.type = "tableRow" -> <<ElementNode("tr", props, kids)>>
       [] node.type = "tableHeaderCell" -> <<ElementNode("th", props, kids)>>
       [] node.type = "tableCell" -> <<ElementNode("td", props, kids)>>
       [] node.type = "thematicBreak" -> <<ElementNode("hr", props, <<>>)>>
       [] node.type = "list" -> <<ElementNode("ul", props, kids)>>
       [] node.type = "listItem" -> <<ElementNode("li", props, kids)>>
       [] OTHER -> <<ElementNode("div", props, kids)>>

ToHastAll(children) == Flatten([i \in 1..Len(children) |-> ToHastOne(children[i])])

RemarkRehype(children) == JoinWithNewlines(ToHastAll(children))

\* --------------------------------------------------------------- serializer
\* rehype-stringify with allowDangerousHtml.  Markup text is the sequence of
\* its tokens: an opening tag with its attributes, a closing tag, or a run of
\* text as written (character references spelled out); a raw node contributes
\* its own tokens unchanged.
OpenToken(tagName, props) == [kind |-> "open", tagName |-> tagName, props |-> props, value |-> <<>>]

CloseToken(tagName) == [kind |-> "close", tagName |-> tagName, props |-> NoProps, value |-> <<>>]

TextToken(value) == [kind |-> "text", tagName |-> "", props |-> NoProps, value |-> value]

VoidTags == {"img", "hr", "br"}

\* hast-util-to-html writes & and < of a text as hexadecimal references.
EscapeChar(c) == IF c = "&" THEN "&#x26;" ELSE IF c = "<" THEN "&#x3C;" ELSE c

EscapeText(value) == [i \in 1..Len(value) |-> EscapeChar(value[i])]

RECURSIVE RehypeStringify(_)
StringifyOne(node) ==
  IF node.type = "text" THEN <<TextToken(EscapeText(node.value))>>
  ELSE IF node.type = "raw" THEN node.value
  ELSE IF node.tagName \in VoidTags THEN <<OpenToken(node.tagName, node.props)>>
  ELSE <<OpenToken(node.tagName, node.props)>> \o RehypeStringify(node.children)
         \o <<CloseToken(node.tagName)>>

RehypeStringify(children) == Flatten([i \in 1..Len(children) |-> StringifyOne(children[i])])

\* An inline style string is the sequence of its declarations, in the order
\* they are joined with ';'.  A declaration is its property name followed by
\* the pieces of its value; an undefined, null or empty value has no pieces.
Decl(prop, value) == <<prop>> \o value

HasValue(decl) == Len(decl) > 1 /\ Tail(decl) # <<"">>

\* styleObjectToString: drops the properties without a value.
StyleObjectToString(style) == SelectSeq(style, HasValue)

\* mergeInlineStyleString(base, next): next alone when base is empty.
MergeInlineStyleString(base, next) == base \o StyleObjectToString(next)

\* ---------------------------------------------------------- theme engine
\* A theme holds the fields of ThemeDefinition the styling functions read.
\* An optional field that is absent is <<>>, the empty string is <<"">>; a
\* number that is only printed is the text number.toString() gives.
Or(value, fallback) == IF value = <<>> THEN fallback ELSE value

Px(n) == NumberToString(n) \o <<"px">>

Max(a, b) == IF a >= b THEN a ELSE b

DemoTheme ==
  [id |-> "tech-minimal",
   color |-> [primary |-> <<"#1A73E8">>, text |-> <<"#2B2B2B">>,
              background |-> <<"#FFFFFF">>, muted |-> <<"#F5F8FF">>],
   fontFamily |-> <<"PingFang SC, \"Helvetica Neue\", Helvetica, Arial, sans-serif">>,
   heading |-> [lineHeight |-> <<"1.4">>, weight |-> <<"600">>,
                fontFamily |-> <<"PingFang SC, \"Helvetica Neue\", Helvetica, Arial, sans-serif">>],
   body |-> [lineHeight |-> <<"1.7">>, weight |-> <<"400">>,
             fontFamily |-> <<"PingFang SC, \"Helvetica Neue\", Helvetica, Arial, sans-serif">>],
   spacing |-> [paragraph |-> <<16>>, section |-> <<32>>],
   paragraph |-> [maxWidth |-> <<680>>],
   headingSizes |-> <<<<34>>, <<28>>, <<22>>, <<>>, <<>>, <<>>>>,
   headingWeights |-> <<<<>>, <<>>, <<>>, <<>>, <<>>, <<>>>>,
   blockquote |-> [accentColor |-> <<"primary">>, borderWidth |-> <<3>>,
                   background |-> <<"#F1F6FF">>]]

WarmNoteTheme ==
  [id |-> "warm-note",
   color |-> [primary |-> <<"#F97316">>, text |-> <<"#2D2A26">>,
              background |-> <<"#FFFDF8">>, muted |-> <<"#FFF6EB">>],
   fontFamily |-> <<"Hiragino Mincho ProN, \"Songti SC\", \"PingFang SC\", \"Microsoft YaHei\", serif">>,
   heading |-> [lineHeight |-> <<"1.5">>, weight |-> <<"500">>,
                fontFamily |-> <<"Hiragino Mincho ProN, \"Songti SC\", \"PingFang SC\", \"Microsoft YaHei\", serif">>],
   body |-> [lineHeight |-> <<"1.8">>, weight |-> <<"400">>,
             fontFamily |-> <<"Hiragino Sans, \"PingFang SC\", \"Microsoft YaHei\", sans-serif">>],
   spacing |-> [paragraph |-> <<18>>, section |-> <<36>>],
   paragraph |-> [maxWidth |-> <<640>>],
   headingSizes |-> <<<<32>>, <<26>>, <<22>>, <<>>, <<>>, <<>>>>,
   headingWeights |-> <<<<"600">>, <<"500">>, <<"500">>, <<>>, <<>>, <<>>>>,
   blockquote |-> [accentColor |-> <<"#F97316">>, borderWidth |-> <<2>>,
                   background |-> <<"#FFF0E0">>]]

\* The least theme themeSchema accepts: an empty colour record, empty spacing,
\* no components, empty strings where a string is required.
BareTheme ==
  [id |-> "",
   color |-> [primary |-> <<>>, text |-> <<>>, background |-> <<>>, muted |-> <<>>],
   fontFamily |-> <<"">>,
   heading |-> [lineHeight |-> <<"0">>, weight |-> <<"0">>, fontFamily |-> <<>>],
   body |-> [lineHeight |-> <<"0">>, weight |-> <<"0">>, fontFamily |-> <<>>],
   spacing |-> [paragraph |-> <<>>, section |-> <<>>],
   paragraph |-> [maxWidth |-> <<>>],
   headingSizes |-> <<<<>>, <<>>, <<>>, <<>>, <<>>, <<>>>>,
   headingWeights |-> <<<<>>, <<>>, <<>>, <<>>, <<>>, <<>>>>,
   blockquote |-> [accentColor |-> <<>>, borderWidth |-> <<>>, background |-> <<>>]]

Themes == {DemoTheme, WarmNoteTheme, BareTheme}

\* The theme objects as they stand before any call: one object per id.
ThemeObjects == [id \in {t.id : t \in Themes} |-> CHOOSE t \in Themes : t.id = id]

ResolveHeadingFontFamily(theme) == Or(theme.heading.fontFamily, theme.fontFamily)

ResolveBodyFontFamily(theme) == Or(theme.body.fontFamily, theme.fontFamily)

SpacingParagraph(theme) == Or(theme.spacing.paragraph, <<16>>)[1]

GetParagraphStyle(theme) ==
  <<Decl("color", theme.color.text),
    Decl("font-family", ResolveBodyFontFamily(theme)),
    Decl("font-weight", theme.body.weight),
    Decl("line-height", theme.body.lineHeight),
    Decl("font-size", <<"16px">>),
    Decl("margin-bottom", Px(SpacingParagraph(theme))),
    Decl("max-width",
         IF theme.paragraph.maxWidth # <<>> /\ theme.paragraph.maxWidth[1] # 0
           THEN Px(theme.paragraph.maxWidth[1]) ELSE <<>>)>>

GetHeadingStyle(theme, level) ==
  LET sizeFallback == Max(16, 36 - (level - 1) * 4) IN
  <<Decl("color", theme.color.text),
    Decl("font-family", ResolveHeadingFontFamily(theme)),
    Decl("font-weight", Or(theme.headingWeights[level], theme.heading.weight)),
    Decl("line-height", theme.heading.lineHeight),
    Decl("font-size", Px(Or(theme.headingSizes[level], <<sizeFallback>>)[1])),
    Decl("margin-top",
         IF level = 1 THEN <<"0">> ELSE Px(Or(theme.spacing.section, <<24>>)[1])),
    Decl("margin-bottom", Px(SpacingParagraph(theme)))>>

\* theme.tokens.color[key]: the palette entry a key names, <<>> when none.
PaletteEntry(theme, key) ==
  IF key = <<"primary">> THEN theme.color.primary
  ELSE IF key = <<"text">> THEN theme.color.text
  ELSE IF key = <<"background">> THEN theme.color.background
  ELSE IF key = <<"muted">> THEN theme.color.muted
  ELSE <<>>

Truthy(value) == value # <<>> /\ value # <<"">>

GetBlockquoteStyle(theme) ==
  LET borderColorKey == theme.blockquote.accentColor
      borderColor ==
        IF Truthy(borderColorKey) /\ Truthy(PaletteEntry(theme, borderColorKey))
          THEN PaletteEntry(theme, borderColorKey)
          ELSE Or(theme.blockquote.accentColor, Or(theme.color.primary, <<"undefined">>))
  IN <<Decl("color", theme.color.text),
       Decl("font-family", ResolveBodyFontFamily(theme)),
       Decl("line-height", theme.body.lineHeight),
       Decl("padding", Px(SpacingParagraph(theme))),
       Decl("margin", Px(SpacingParagraph(theme)) \o <<" 0">>),
       Decl("border-left",
            Px(Or(theme.blockquote.borderWidth, <<3>>)[1]) \o <<" solid ">> \o borderColor),
       Decl("background",
            Or(theme.blockquote.background, Or(theme.color.muted, <<"#F5F8FF">>)))>>

GetListStyle(theme) ==
  <<Decl("color", theme.color.text),
    Decl("font-family", ResolveBodyFontFamily(theme)),
    Decl("line-height", theme.body.lineHeight),
    Decl("margin-bottom", Px(SpacingParagraph(theme))),
    Decl("padding-left", <<"24px">>)>>

\* Math.round(baseSpacing / 2) rounds a half up.
GetListItemStyle(theme) ==
  <<Decl("margin-bottom", Px((SpacingParagraph(theme) + 1) \div 2))>>

GetLinkStyle(theme) ==
  <<Decl("color", theme.color.primary),
    Decl("text-decoration", <<"none">>),
    Decl("font-family", ResolveBodyFontFamily(theme))>>

GetTableStyle(theme) ==
  <<Decl("width", <<"100%">>),
    Decl("border-collapse", <<"collapse">>),
    Decl("margin", Px(SpacingParagraph(theme)) \o <<" 0">>),
    Decl("font-family", ResolveBodyFontFamily(theme)),
    Decl("background", <<"#ffffff">>),
    Decl("border-radius", <<"16px">>),
    Decl("box-shadow", <<"0 18px 40px rgba(15, 23, 42, 0.12)">>),
    Decl("border-spacing", <<"0">>),
    Decl("overflow", <<"hidden">>),
    Decl("border", <<"1px solid rgba(15, 23, 42, 0.08)">>)>>

GetTableHeaderStyle(theme) ==
  <<Decl("background", theme.color.primary),
    Decl("color", <<"#ffffff">>),
    Decl("text-align", <<"left">>),
    Decl("padding", <<"14px 18px">>),
    Decl("font-weight", <<"600">>),
    Decl("font-size", <<"14px">>),
    Decl("border-bottom", <<"1px solid rgba(255,255,255,0.2)">>)>>

GetTableCellStyle(theme) ==
  <<Decl("padding", <<"14px 18px">>),
    Decl("border-bottom", <<"1px solid rgba(15, 23, 42, 0.06)">>),
    Decl("font-size", <<"13px">>),
    Decl("color", theme.color.text),
    Decl("background", <<"#ffffff">>)>>

MonoFont == <<"\"JetBrains Mono\", Consolas, \"Liberation Mono\", Menlo, Courier, monospace">>

GetCodeBlockStyle(theme) ==
  <<Decl("font-family", MonoFont),
    Decl("background", <<"#121826">>),
    Decl("color", <<"#f8fafc">>),
    Decl("padding", <<"32px 24px 24px">>),
    Decl("border-radius", <<"18px">>),
    Decl("margin", Px(SpacingParagraph(theme)) \o <<" 0">>),
    Decl("overflow-x", <<"auto">>),
    Decl("box-shadow", <<"0 24px 48px rgba(15, 23, 42, 0.32)">>),
    Decl("border", <<"1px solid rgba(255,255,255,0.08)">>),
    Decl("position", <<"relative">>)>>

GetInlineCodeStyle(theme) ==
  <<Decl("font-family", MonoFont),
    Decl("background", <<"rgba(37, 99, 235, 0.08)">>),
    Decl("color", theme.color.primary),
    Decl("padding", <<"2px 6px">>),
    Decl("border-radius", <<"6px">>),
    Decl("font-size", <<"12px">>)>>

BlockCodeStyle ==
  <<Decl("font-family", MonoFont), Decl("font-size", <<"13px">>),
    Decl("display", <<"block">>), Decl("margin", <<"0">>)>>

\* ----------------------------------------------------------- theme plugin
\* applyInlineStyle: appends the style to whatever the node already carries.
ApplyInlineStyle(node, style) ==
  [node EXCEPT !.props.style = MergeInlineStyleString(node.props.style, style)]

HeadingLevel(tagName) ==
  CASE tagName = "h1" -> 1 [] tagName = "h2" -> 2 [] tagName = "h3" -> 3
    [] tagName = "h4" -> 4 [] tagName = "h5" -> 5 [] OTHER -> 6

\* A styling pass that forgets table cells.
StyleForTagNoCells(theme, tagName, parentTag) ==
  IF tagName = "p" THEN GetParagraphStyle(theme)
  ELSE IF tagName \in {"h1", "h2", "h3", "h4", "h5", "h6"}
    THEN GetHeadingStyle(theme, HeadingLevel(tagName))
  ELSE <<>>

\* The switch of createThemePlugin (index.ts:101-214): the style a tag gets,
\* <<>> for a tag the switch leaves alone.
StyleForTag(theme, tagName, parentTag) ==
  IF tagName = "p" THEN GetParagraphStyle(theme)
  ELSE IF tagName \in {"h1", "h2", "h3", "h4", "h5", "h6"}
    THEN GetHeadingStyle(theme, HeadingLevel(tagName))
  ELSE IF tagName = "blockquote" THEN GetBlockquoteStyle(theme)
  ELSE IF tagName = "table" THEN GetTableStyle(theme)
  ELSE IF tagName = "th" THEN GetTableHeaderStyle(theme)
  ELSE IF tagName = "td" THEN GetTableCellStyle(theme)
  ELSE IF tagName = "pre" THEN GetCodeBlockStyle(theme)
  ELSE IF tagName = "code"
    THEN IF parentTag = "pre" THEN BlockCodeStyle ELSE GetInlineCodeStyle(theme)
  ELSE IF tagName = "a" THEN GetLinkStyle(theme)
  ELSE IF tagName = "img"
    THEN <<Decl("max-width", <<"100%">>), Decl("height", <<"auto">>),
           Decl("border-radius", <<"4px">>)>>
  ELSE IF tagName = "mark"
    THEN <<Decl("background", <<"#fef08a">>), Decl("padding", <<"0 4px">>),
           Decl("border-radius", <<"4px">>)>>
  ELSE IF tagName \in {"ul", "ol"} THEN GetListStyle(theme)
  ELSE IF tagName = "li" THEN GetListItemStyle(theme)
  ELSE IF tagName = "dl"
    THEN <<Decl("margin", Px(SpacingParagraph(theme)) \o <<" 0">>),
           Decl("padding-left", <<"0">>)>>
  ELSE IF tagName = "dt"
    THEN <<Decl("font-weight", <<"600">>), Decl("margin-top", <<"12px">>),
           Decl("color", theme.color.text)>>
  ELSE IF tagName = "dd"
    THEN <<Decl("margin-left", <<"16px">>), Decl("color", theme.color.text),
           Decl("line-height", theme.body.lineHeight)>>
  ELSE IF tagName \in {"sup", "sub"} THEN <<Decl("font-size", <<"0.85em">>)>>
  ELSE <<>>

StyledTags ==
  {"p", "h1", "h2", "h3", "h4", "h5", "h6", "blockquote", "ul", "ol", "li", "table", "th",
   "td", "pre", "code", "a", "img", "dl", "dt", "dd", "mark", "sup", "sub"}

\* visit(tree, 'element', ...): every element of the tree, each once.
RECURSIVE ThemeVisit(_, _, _)
ThemeVisit(children, parentTag, theme) ==
  [i \in 1..Len(children) |->
     LET node == children[i] IN
     IF node.type # "element" THEN node
     ELSE LET styled ==
                IF node.tagName \in StyledTags
                  THEN ApplyInlineStyle(node, StyleForTag(theme, node.tagName, parentTag))
                  ELSE node
              extra ==
                IF node.tagName = "img" /\ styled.props.loading = ""
                  THEN [styled EXCEPT !.props.loading = "lazy"]
                ELSE IF node.tagName = "a"
                  THEN [styled EXCEPT
                          !.props.target = IF @ = "" THEN "_blank" ELSE @,
                          !.props.rel = IF @ = "" THEN "noopener noreferrer" ELSE @]
                  ELSE styled
          IN [extra EXCEPT !.children = ThemeVisit(node.children, node.tagName, theme)]]

CreateThemePlugin(theme, children) == ThemeVisit(children, "", theme)

\* A variant of the plugin that writes the default paragraph spacing back
\* into the theme it was given.
ThemeAfterStylingDefaulted(theme) == [theme EXCEPT !.spacing.paragraph = <<16>>]

\* What the plugin and the style functions leave in the theme object they
\* were handed: they only read it (index.ts:88-216 has no write whose target
\* is `theme`, and each get*Style of the theme engine returns a new object).
ThemeAfterStyling(theme) == theme

\* ---------------------------------------------------- highlight segmenter
IsDelimiterAt(value, j) ==
  j >= 1 /\ j + 1 <= Len(value) /\ value[j] = "=" /\ value[j + 1] = "="

Least(S) == CHOOSE x \in S : \A y \in S : x <= y

\* HIGHLIGHT_REGEX.exec(value) for /==([\s\S]+?)==/g with the cursor at
\* lastIndex (0-based): the leftmost start at or after the cursor that has a
\* closing delimiter after at least one captured character, the capture as
\* short as possible.  A failed exec resets the cursor to 0.
RegexExec(value, lastIndex) ==
  LET closers(s) == {j \in (s + 3)..Len(value) : IsDelimiterAt(value, j)}
      starts == {s \in (lastIndex + 1)..Len(value) :
                   IsDelimiterAt(value, s) /\ closers(s) # {}}
  IN IF starts = {}
       THEN [matched |-> FALSE, index |-> 0, full |-> <<>>, captured |-> <<>>,
             lastIndex |-> 0]
       ELSE LET s == Least(starts)
                j == Least(closers(s))
            IN [matched |-> TRUE, index |-> s - 1,
                full |-> SubSeq(value, s, j + 1),
                captured |-> SubSeq(value, s + 2, j - 1),
                lastIndex |-> j + 1]

\* String.prototype.slice(from, to) with 0-based bounds.
Slice(value, from, to) == SubSeq(value, from + 1, to)

\* The while loop of splitHighlightSegments (index.ts:227-236).
RECURSIVE SplitLoop(_, _, _, _)
SplitLoop(value, cursor, lastIndex, segments) ==
  LET match == RegexExec(value, cursor) IN
  IF ~match.matched
    THEN [segments |-> segments, lastIndex |-> lastIndex, cursor |-> match.lastIndex]
    ELSE LET plain == IF match.index > lastIndex
                        THEN <<[value |-> Slice(value, lastIndex, match.index),
                                marked |-> FALSE]>>
                        ELSE <<>>
             mark == IF Len(match.captured) > 0
                       THEN <<[value |-> match.captured, marked |-> TRUE]>>
                       ELSE <<>>
         IN SplitLoop(value, match.lastIndex, match.index + Len(match.full),
                      segments \o plain \o mark)

\* A variant that forgets the text after the last match (index.ts:242-244).
SplitHighlightSegmentsNoTail(value, cursor) ==
  LET r == SplitLoop(value, 0, 0, <<>>) IN [segments |-> r.segments, cursor |-> r.cursor]

\* A variant without the reset on entry (index.ts:225): its first exec starts
\* at the cursor it finds.
SplitHighlightSegmentsNoReset(value, cursor) ==
  LET r == SplitLoop(value, cursor, 0, <<>>) IN
  IF Len(r.segments) = 0 THEN [segments |-> <<>>, cursor |-> r.cursor]
  ELSE [segments |->
          IF r.lastIndex < Len(value)
            THEN Append(r.segments,
                        [value |-> Slice(value, r.lastIndex, Len(value)), marked |-> FALSE])
            ELSE r.segments,
        cursor |-> r.cursor]

\* A variant that neither resets the shared cursor on entry (index.ts:225)
\* nor runs the pattern to exhaustion: it leaves the cursor after its last match.
SplitHighlightSegmentsStale(value, cursor) ==
  LET r == SplitLoop(value, cursor, 0, <<>>) IN
  IF Len(r.segments) = 0 THEN [segments |-> <<>>, cursor |-> r.cursor]
  ELSE [segments |->
          IF r.lastIndex < Len(value)
            THEN Append(r.segments,
                        [value |-> Slice(value, r.lastIndex, Len(value)), marked |-> FALSE])
            ELSE r.segments,
        cursor |-> r.lastIndex]

\* splitHighlightSegments, entered with the shared cursor at `cursor`; the
\* result null is the empty sequence.  Returns the cursor it leaves behind.
SplitHighlightSegments(value, cursor) ==
  LET r == SplitLoop(value, 0, 0, <<>>) IN
  IF Len(r.segments) = 0 THEN [segments |-> <<>>, cursor |-> r.cursor]
  ELSE [segments |->
          IF r.lastIndex < Len(value)
            THEN Append(r.segments,
                        [value |-> Slice(value, r.lastIndex, Len(value)), marked |-> FALSE])
            ELSE r.segments,
        cursor |-> r.cursor]

ShouldSkipHighlight(parent) == parent.tagName \in {"code", "pre", "script", "style"}

ContainsDelimiter(value) == \E j \in 1..Len(value) : IsDelimiterAt(value, j)

HighlightReplacement(segments) ==
  [k \in 1..Len(segments) |->
     IF segments[k].marked
       THEN ElementNode("mark", NoProps, <<TextNode(segments[k].value)>>)
       ELSE TextNode(segments[k].value)]

\* visit(tree, 'text', ...) of rehypeHighlightMark over the children of
\* `parent`, from position `index` on (1-based), in document order.
RECURSIVE HighlightVisit(_, _, _, _)
HighlightVisit(children, parent, index, cursor) ==
  IF index > Len(children) THEN [children |-> children, cursor |-> cursor]
  ELSE LET node == children[index] IN
    IF node.type = "text"
      THEN IF \/ parent.type # "element"
              \/ ShouldSkipHighlight(parent)
              \/ ~ContainsDelimiter(node.value)
             THEN HighlightVisit(children, parent, index + 1, cursor)
             ELSE LET r == SplitHighlightSegments(node.value, cursor) IN
                  IF r.segments = <<>>
                    THEN HighlightVisit(children, parent, index + 1, r.cursor)
                    ELSE LET replacement == HighlightReplacement(r.segments) IN
                         HighlightVisit(
                           SubSeq(children, 1, index - 1) \o replacement
                             \o SubSeq(children, index + 1, Len(children)),
                           parent, index + Len(replacement), r.cursor)
    ELSE IF node.type = "element"
      THEN LET sub == HighlightVisit(node.children, node, 1, cursor) IN
           HighlightVisit([children EXCEPT ![index].children = sub.children],
                          parent, index + 1, sub.cursor)
    ELSE HighlightVisit(children, parent, index + 1, cursor)

RehypeHighlightMark(children, cursor) ==
  HighlightVisit(children, [type |-> "root", tagName |-> ""], 1, cursor)

\* ------------------------------------------------- multi-image grouping
IsWhitespaceText(node) == node.type = "text" /\ TrimIsEmpty(node.value)

RECURSIVE ParagraphImages(_, _)
ParagraphImages(kids, images) ==
  IF kids = <<>> THEN images
  ELSE LET child == Head(kids) IN
       IF child.type = "element" /\ child.tagName = "img"
         THEN ParagraphImages(Tail(kids), Append(images, child))
       ELSE IF IsWhitespaceText(child)
         THEN ParagraphImages(Tail(kids), images)
       ELSE <<>>

ExtractImagesFromNode(node) ==
  IF node.type # "element" THEN <<>>
  ELSE IF node.tagName = "img" THEN <<node>>
  ELSE IF node.tagName = "p" THEN ParagraphImages(node.children, <<>>)
  ELSE <<>>

\* A variant that keeps the last source line it meets.
RECURSIVE GetSourceLineLast(_)
GetSourceLineLast(nodes) ==
  IF nodes = <<>> THEN 0
  ELSE IF nodes[Len(nodes)].type = "element" /\ nodes[Len(nodes)].props.sourceLine # 0
    THEN nodes[Len(nodes)].props.sourceLine
  ELSE GetSourceLineLast(SubSeq(nodes, 1, Len(nodes) - 1))

RECURSIVE GetSourceLine(_)
GetSourceLine(nodes) ==
  IF nodes = <<>> THEN 0
  ELSE IF Head(nodes).type = "element" /\ Head(nodes).props.sourceLine # 0
    THEN Head(nodes).props.sourceLine
  ELSE GetSourceLine(Tail(nodes))

WrapperStyle ==
  <<Decl("width", <<"100%">>), Decl("overflow", <<"hidden">>),
    Decl("border-radius", <<"10px">>), Decl("background-color", <<"#f5f7fb">>),
    Decl("display", <<"flex">>), Decl("align-items", <<"center">>),
    Decl("justify-content", <<"center">>), Decl("padding", <<"4px">>)>>

GridImageStyle ==
  <<Decl("width", <<"100%">>), Decl("height", <<"auto">>), Decl("display", <<"block">>),
    Decl("border-radius", <<"8px">>), Decl("object-fit", <<"cover">>)>>

CreateImageWrapperNode(image) ==
  ElementNode("div",
    [NoProps EXCEPT !.className = "wechat-multi-image-item", !.style = WrapperStyle],
    << ElementNode("img",
         [image.props EXCEPT
            !.style = MergeInlineStyleString(image.props.style, GridImageStyle),
            !.loading = IF image.props.loading = "" THEN "lazy" ELSE image.props.loading],
         <<>>) >>)

ResolveGridColumnsOff(count) ==
  IF count = 2 THEN 2 ELSE IF count = 3 \/ count = 4 THEN 3 ELSE IF count >= 5 THEN 3 ELSE 1

ResolveGridColumns(count) ==
  IF count = 2 \/ count = 4 THEN 2
  ELSE IF count = 3 THEN 3
  ELSE IF count >= 5 THEN 3 ELSE 1

ContainerStyle(columns) ==
  <<Decl("display", <<"grid">>),
    Decl("grid-template-columns", <<"repeat(">> \o NumberToString(columns) \o <<",1fr)">>),
    Decl("gap", <<"12px">>), Decl("margin", <<"24px auto">>), Decl("width", <<"100%">>),
    Decl("max-width", <<"760px">>), Decl("align-items", <<"stretch">>)>>

CreateMultiImageContainer(images, sourceLine) ==
  LET columns == ResolveGridColumns(Len(images)) IN
  ElementNode("div",
    [NoProps EXCEPT !.className = "wechat-multi-image-grid",
                    !.style = ContainerStyle(columns),
                    !.imageCount = NumberToString(Len(images)),
                    !.columns = NumberToString(columns),
                    !.sourceLine = sourceLine],
    [i \in 1..Len(images) |-> CreateImageWrapperNode(images[i])])

\* A variant of the inner loop that puts each node's images before the ones
\* already found.
RECURSIVE ScanRunPrepend(_, _, _)
ScanRunPrepend(children, index, images) ==
  IF index > Len(children) THEN [index |-> index, images |-> images]
  ELSE LET current == children[index] IN
       IF IsWhitespaceText(current) THEN ScanRunPrepend(children, index + 1, images)
       ELSE LET extracted == ExtractImagesFromNode(current) IN
            IF Len(extracted) = 0 THEN [index |-> index, images |-> images]
            ELSE ScanRunPrepend(children, index + 1, extracted \o images)

\* The inner while loop (index.ts:437-454): from `index`, consume white-space
\* text and image-bearing nodes; returns where it stopped and what it found.
RECURSIVE ScanRun(_, _, _)
ScanRun(children, index, images) ==
  IF index > Len(children) THEN [index |-> index, images |-> images]
  ELSE LET current == children[index] IN
       IF IsWhitespaceText(current) THEN ScanRun(children, index + 1, images)
       ELSE LET extracted == ExtractImagesFromNode(current) IN
            IF Len(extracted) = 0 THEN [index |-> index, images |-> images]
            ELSE ScanRun(children, index + 1, images \o extracted)

Splice(children, start, deleteCount, items) ==
  SubSeq(children, 1, start - 1) \o items
    \o SubSeq(children, start + deleteCount, Len(children))

\* The outer loop with its threshold lowered to one image.
RECURSIVE GroupFromSingles(_, _)
GroupFromSingles(children, index) ==
  IF index > Len(children) THEN children
  ELSE LET startIndex == index
           run == ScanRun(children, index, <<>>)
           sequenceNodes == SubSeq(children, startIndex, run.index - 1)
       IN IF Len(run.images) >= 1
            THEN GroupFromSingles(
                   Splice(children, startIndex, Len(sequenceNodes),
                          <<CreateMultiImageContainer(run.images,
                                                      GetSourceLine(sequenceNodes))>>),
                   startIndex + 1)
            ELSE GroupFromSingles(children, startIndex + 1)

\* The outer while loop (index.ts:432-465); indices are 1-based here.
RECURSIVE GroupFrom(_, _)
GroupFrom(children, index) ==
  IF index > Len(children) THEN children
  ELSE LET startIndex == index
           run == ScanRun(children, index, <<>>)
           sequenceNodes == SubSeq(children, startIndex, run.index - 1)
       IN IF Len(run.images) >= 2
            THEN GroupFrom(
                   Splice(children, startIndex, Len(sequenceNodes),
                          <<CreateMultiImageContainer(run.images,
                                                      GetSourceLine(sequenceNodes))>>),
                   startIndex + 1)
            ELSE GroupFrom(children, startIndex + 1)

\* A variant of the step after a splice that goes back to the run's start.
ResumeAtStart(startIndex) == startIndex

\* Where the scan goes on after the splice (index.ts:460), 0-based.
ResumeAfterContainer(startIndex) == startIndex + 1

\* One turn of the outer while loop (index.ts:432-465) with `index` 0-based:
\* the sibling list and the index it leaves.
GroupIteration(children, index) ==
  LET startIndex == index
      run == ScanRun(children, index + 1, <<>>)
      sequenceNodes == SubSeq(children, startIndex + 1, run.index - 1)
  IN IF Len(run.images) >= 2
       THEN [children |->
               Splice(children, startIndex + 1, Len(sequenceNodes),
                      <<CreateMultiImageContainer(run.images, GetSourceLine(sequenceNodes))>>),
             index |-> ResumeAfterContainer(startIndex)]
       ELSE [children |-> children, index |-> startIndex + 1]

GroupConsecutiveImagesPlugin(children) ==
  IF Len(children) = 0 THEN children ELSE GroupFrom(children, 1)

\* ------------------------------------------------------ theme validation
\* A JSON scalar is [kind, text]; an object is a record and a map a function
\* from its keys.  A key that is missing reads as Undefined.
Str(text) == [kind |-> "string", text |-> text]

Num(text) == [kind |-> "number", text |-> text]

Undefined == [kind |-> "undefined", text |-> ""]

IsScalar(value) == "kind" \in DOMAIN value

\* The paths at which themeSchema.parse reports an issue (part_001:3-45):
\* id, version, metadata.name and typography.fontFamily are strings, the
\* line heights and weights are numbers, a font family below heading or body
\* is an optional string, color is a record of strings and spacing a record
\* of numbers, whatever their keys.
ThemeSchemaIssues(theme) ==
  LET Unless(ok, path) == IF ok THEN {} ELSE {path}
      typography == theme.tokens.typography
      Section(name, part) ==
        Unless(part.lineHeight.kind = "number", <<"tokens", "typography", name, "lineHeight">>)
        \cup Unless(part.weight.kind = "number", <<"tokens", "typography", name, "weight">>)
        \cup Unless(part.fontFamily.kind \in {"string", "undefined"},
                    <<"tokens", "typography", name, "fontFamily">>)
  IN IF IsScalar(theme) THEN {<<>>}
     ELSE Unless(theme.id.kind = "string", <<"id">>)
          \cup Unless(theme.version.kind = "string", <<"version">>)
          \cup Unless(theme.metadata.name.kind = "string", <<"metadata", "name">>)
          \cup {<<"tokens", "color", k>> :
                  k \in {key \in DOMAIN theme.tokens.color :
                           theme.tokens.color[key].kind # "string"}}
          \cup Unless(typography.fontFamily.kind = "string",
                      <<"tokens", "typography", "fontFamily">>)
          \cup Section("heading", typography.heading)
          \cup Section("body", typography.body)
          \cup {<<"tokens", "spacing", k>> :
                  k \in {key \in DOMAIN theme.tokens.spacing :
                           theme.tokens.spacing[key].kind # "number"}}

\* validateTheme(theme) (part_001:47-49): the definition, or the ZodError.
ValidateTheme(theme) ==
  LET found == ThemeSchemaIssues(theme) IN
  IF found = {} THEN [threw |-> FALSE, value |-> theme, message |-> <<>>]
  ELSE [threw |-> TRUE, value |-> Undefined,
        message |-> <<[name |-> "ZodError", issues |-> found]>>]

\* ------------------------------------------- theme state of the web studio
\* The text of the theme JSON box stands for what JSON.parse makes of it:
\* `parsed` is <<>> when JSON.parse throws and <<value>> otherwise.
JsonText(text, parsed) == [text |-> text, parsed |-> parsed]

JsonParse(input) ==
  IF input.parsed = <<>>
    THEN [threw |-> TRUE, value |-> Undefined,
          message |-> <<[name |-> "SyntaxError", issues |-> {}]>>]
    ELSE [threw |-> FALSE, value |-> input.parsed[1], message |-> <<>>]

NoOverrides == [field \in {} |-> Undefined]

\* DEFAULT_MARKDOWN (part_003:21), as parsed: it opens with a depth-1 heading.
DefaultMarkdown == <<MdHeading(1, 1, <<MdText(<<"a">>, 1, 3)>>)>>

\* useState initial values (part_003:138-141, 144, 150-153); null is <<>>.
InitialUi ==
  [markdown |-> DefaultMarkdown, htmlPreview |-> <<>>, qualityIssues |-> <<>>,
   isRendering |-> FALSE,
   themeId |-> "tech-minimal", themeOverrides |-> NoOverrides, customTheme |-> <<>>,
   themeJsonInput |-> JsonText("", <<>>), themeJsonError |-> <<>>]

\* Neither a render call nor the studio has touched the theme state.
StudioIdle == themes = ThemeObjects /\ ui = InitialUi

\* A variant of applyThemeJson that clears the overrides before it validates.
ApplyThemeJsonClearingFirst(state) ==
  LET parsed == JsonParse(state.themeJsonInput)
      validated == IF parsed.threw THEN parsed ELSE ValidateTheme(parsed.value)
      cleared == [state EXCEPT !.themeOverrides = NoOverrides]
  IN IF validated.threw
       THEN [cleared EXCEPT !.themeJsonError = validated.message]
       ELSE [cleared EXCEPT !.customTheme = <<validated.value>>,
                            !.themeId = validated.value.id.text,
                            !.themeJsonError = <<>>]

\* applyThemeJson (part_003:497-508): the four setters run after both
\* JSON.parse and validateTheme returned; the catch sets the message only.
ApplyThemeJsonState(state) ==
  LET parsed == JsonParse(state.themeJsonInput)
      validated == IF parsed.threw THEN parsed ELSE ValidateTheme(parsed.value)
  IN IF validated.threw
       THEN [state EXCEPT !.themeJsonError = validated.message]
       ELSE [state EXCEPT !.customTheme = <<validated.value>>,
                          !.themeId = validated.value.id.text,
                          !.themeOverrides = NoOverrides,
                          !.themeJsonError = <<>>]

BuiltinThemeIds == {"tech-minimal", "warm-note"}

\* clearCustomTheme (part_003:510-518).
ClearCustomThemeState(state) ==
  [state EXCEPT !.customTheme = <<>>,
                !.themeOverrides = NoOverrides,
                !.themeJsonInput = JsonText("", <<>>),
                !.themeJsonError = <<>>,
                !.themeId = IF @ \in BuiltinThemeIds THEN @ ELSE "tech-minimal"]

\* Number(value) for the text of an input element: NaN unless all digits.
NumberOf(value) ==
  IF value = <<>> THEN [isNaN |-> FALSE, value |-> 0]
  ELSE IF \A i \in 1..Len(value) : IsDigit(value[i]) THEN ParseInt(value)
  ELSE [isNaN |-> TRUE, value |-> 0]

WithKey(map, key, value) ==
  [k \in DOMAIN map \cup {key} |-> IF k = key THEN value ELSE map[k]]

WithoutKey(map, key) == [k \in DOMAIN map \ {key} |-> map[k]]

\* handleThemeOverrideChange(field, value) (part_003:471-489).
ThemeOverrideChange(prev, field, value) ==
  IF field = "paragraphSpacing"
    THEN LET numeric == NumberOf(value) IN
         IF numeric.isNaN THEN prev
         ELSE WithKey(prev, "paragraphSpacing", Num(NumberToString(numeric.value)))
  ELSE IF value = <<>> THEN WithoutKey(prev, field)
  ELSE WithKey(prev, field, Str(value))

\* ------------------------------------------ inputs of the grouping pass
\* Shapes of a top-level sibling; the node at position i carries line i and
\* its images carry distinct sources 10*i + k.
\* "pn" is a paragraph that carries no source line (its node had no position).
GroupShapes == {"ws", "txt", "h2", "img", "p1", "p2", "p3", "pw", "pt", "pn"}

ShapeNode(shape, i) ==
  LET img(k) == ImgNode(<<10 * i + k>>, i)
      nl == TextNode(<<"\n">>)
      P(kids) == ElementNode("p", [NoProps EXCEPT !.sourceLine = i], kids)
  IN CASE shape = "ws"  -> nl
       [] shape = "txt" -> TextNode(<<"a">>)
       [] shape = "h2"  -> ElementNode("h2", [NoProps EXCEPT !.sourceLine = i],
                                        <<TextNode(<<"a">>)>>)
       [] shape = "img" -> img(1)
       [] shape = "p1"  -> P(<<img(1)>>)
       [] shape = "p2"  -> P(<<img(1), nl, img(2)>>)
       [] shape = "p3"  -> P(<<img(1), nl, img(2), nl, img(3)>>)
       [] shape = "pw"  -> P(<<nl>>)
       [] shape = "pn"  -> ElementNode("p", NoProps, <<ImgNode(<<10 * i + 1>>, 0)>>)
       [] OTHER         -> P(<<img(1), TextNode(<<"a">>)>>)

GroupInputs ==
  {[i \in 1..Len(shapes) |-> ShapeNode(shapes[i], i)] :
     shapes \in SeqsUpTo(GroupShapes, MaxSiblings)}

NoCalls == <<>>

InitGroup ==
  /\ pc = "input"
  /\ regexLastIndex = 0
  /\ calls = NoCalls
  /\ treeIn \in GroupInputs
  /\ tree = treeIn
  /\ ExportIdle /\ QualityIdle /\ StudioIdle /\ ScanIdle

GroupConsecutiveImages ==
  /\ pc = "input"
  /\ tree' = GroupConsecutiveImagesPlugin(tree)
  /\ pc' = "grouped"
  /\ UNCHANGED <<treeIn, regexLastIndex, calls, exportVars, qualityVars, studioVars, groupIndex>>

NextGroup == GroupConsecutiveImages

SpecGroup == InitGroup /\ [][NextGroup]_vars

\* ------------------------------------------- the grouping loop turn by turn
\* groupConsecutiveImagesPlugin stepped one outer-loop turn at a time; the
\* loop is synchronous, so a turn that can run does run.
\* The scan never reads a source line and treats every node that ends a run
\* alike, so its inputs keep one shape of each kind the loop tells apart.
ScanInputs ==
  {[i \in 1..Len(shapes) |-> ShapeNode(shapes[i], i)] :
     shapes \in SeqsUpTo(GroupShapes \ {"pn", "txt", "p3"}, MaxSiblings)}

InitScan ==
  /\ pc = "input"
  /\ regexLastIndex = 0
  /\ calls = NoCalls
  /\ treeIn \in ScanInputs
  /\ tree = treeIn
  /\ ExportIdle /\ QualityIdle /\ StudioIdle /\ ScanIdle

ScanFrame == UNCHANGED <<treeIn, regexLastIndex, calls, exportVars, qualityVars, studioVars>>

GroupTurn ==
  /\ pc \in {"input", "scanning"}
  /\ groupIndex < Len(tree)
  /\ LET turn == GroupIteration(tree, groupIndex) IN
       /\ tree' = turn.children
       /\ groupIndex' = turn.index
  /\ pc' = "scanning"
  /\ ScanFrame

\* The loop condition fails (index.ts:432), or the list was empty (index.ts:425).
GroupReturn ==
  /\ pc \in {"input", "scanning"}
  /\ groupIndex >= Len(tree)
  /\ pc' = "grouped"
  /\ UNCHANGED <<tree, groupIndex>>
  /\ ScanFrame

NextScan == GroupTurn \/ GroupReturn

SpecScan == InitScan /\ [][NextScan]_vars /\ WF_vars(NextScan)

\* ------------------------------------------ inputs of the highlight pass
TextValues == SeqsUpTo({"=", "a"}, MaxText)

\* A text node under a paragraph, under a code element, at the root, under the
\* code element of a pre, and under an emphasis inside a code element.
HighlightInputs ==
  {<<ElementNode(tag, NoProps, <<TextNode(v)>>)>> : tag \in {"p", "code"}, v \in TextValues}
    \cup {<<TextNode(v)>> : v \in TextValues}
    \cup {<<ElementNode(outer, NoProps, <<ElementNode(inner, NoProps, <<TextNode(v)>>)>>)>> :
            outer \in {"pre", "code"}, inner \in {"code", "em"}, v \in TextValues}

InitHighlight ==
  /\ pc = "input"
  /\ regexLastIndex = 0
  /\ calls = NoCalls
  /\ treeIn \in HighlightInputs
  /\ tree = treeIn
  /\ ExportIdle /\ QualityIdle /\ StudioIdle /\ ScanIdle

HighlightMark ==
  /\ pc = "input"
  /\ LET r == RehypeHighlightMark(tree, regexLastIndex) IN
       /\ tree' = r.children
       /\ regexLastIndex' = r.cursor
  /\ pc' = "highlighted"
  /\ UNCHANGED <<treeIn, calls, exportVars, qualityVars, studioVars, groupIndex>>

NextHighlight == HighlightMark

SpecHighlight == InitHighlight /\ [][NextHighlight]_vars

\* ------------------------------- the highlight and grouping passes in a row
\* The two tree passes as the pipeline chains them (index.ts:494, 500), on
\* sibling lists that mix delimited text with images; treeIn holds the tree
\* as it stood before the pass that ran last.
PassShapes == {"ws", "h2", "img", "p1", "p2", "pm", "pmi", "pre"}

PassNode(shape, i) ==
  LET P(kids) == ElementNode("p", [NoProps EXCEPT !.sourceLine = i], kids) IN
  CASE shape = "pm"  -> P(<<TextNode(<<"a", "=", "=", "a", "=", "=", "a">>)>>)
    [] shape = "pmi" -> P(<<TextNode(<<"=", "=", "a", "=", "=">>), ImgNode(<<10 * i + 1>>, i),
                           TextNode(<<"a", "=", "=", "a", "=", "=">>)>>)
    [] shape = "pre" -> ElementNode("pre", [NoProps EXCEPT !.sourceLine = i],
                          <<ElementNode("code", NoProps,
                              <<TextNode(<<"=", "=", "a", "=", "=">>)>>)>>)
    [] OTHER -> ShapeNode(shape, i)

PassInputs ==
  {[i \in 1..Len(shapes) |-> PassNode(shapes[i], i)] :
     shapes \in SeqsUpTo(PassShapes, MaxSiblings)}

InitPasses ==
  /\ pc = "input"
  /\ regexLastIndex = 0
  /\ calls = NoCalls
  /\ treeIn \in PassInputs
  /\ tree = treeIn
  /\ ExportIdle /\ QualityIdle /\ StudioIdle /\ ScanIdle

HighlightPass ==
  /\ pc = "input"
  /\ LET r == RehypeHighlightMark(tree, regexLastIndex) IN
       /\ tree' = r.children
       /\ regexLastIndex' = r.cursor
  /\ treeIn' = tree
  /\ pc' = "highlighted"
  /\ UNCHANGED <<calls, exportVars, qualityVars, studioVars, groupIndex>>

GroupingPass ==
  /\ pc = "highlighted"
  /\ tree' = GroupConsecutiveImagesPlugin(tree)
  /\ treeIn' = tree
  /\ pc' = "grouped"
  /\ UNCHANGED <<regexLastIndex, calls, exportVars, qualityVars, studioVars, groupIndex>>

NextPasses == HighlightPass \/ GroupingPass

SpecPasses == InitPasses /\ [][NextPasses]_vars

\* ------------------------------------------ inputs of the annotator pass
\* Trees handed to remarkAttachSourceLine on their own: a node may come with
\* data-source-line already written by an earlier writer (a line number, so
\* never 0) and may lack a recorded position.  The block at position i starts
\* on line i; treeIn holds the tree as it stood before the run that ran last.
PresetLines == {0, 7}

AnnotatorNode(type, line, preset, children) ==
  [MdNode(type, line, 1, children) EXCEPT !.sourceLine = preset]

AnnotatorInner(i) ==
  {<<>>} \cup
  {<<AnnotatorNode("emphasis", i, 0, <<AnnotatorNode("image", i, preset, <<>>)>>)>> :
     preset \in PresetLines}

AnnotatorBlocks(i) ==
  {AnnotatorNode(type, line, preset, children) :
     type \in {"heading", "footnoteDefinition"}, line \in {0, i},
     preset \in PresetLines, children \in AnnotatorInner(i)}

RECURSIVE AnnotatorTrees(_)
AnnotatorTrees(n) ==
  IF n = 0 THEN {<<>>}
  ELSE {Append(t, block) : t \in AnnotatorTrees(n - 1), block \in AnnotatorBlocks(n)}

AnnotatorInputs == UNION {AnnotatorTrees(n) : n \in 0..MaxBlocks}

InitAnnotate ==
  /\ pc = "input"
  /\ regexLastIndex = 0
  /\ calls = NoCalls
  /\ treeIn \in AnnotatorInputs
  /\ tree = treeIn
  /\ ExportIdle /\ QualityIdle /\ StudioIdle /\ ScanIdle

Annotate ==
  /\ pc = "input"
  /\ tree' = RemarkAttachSourceLine(tree)
  /\ treeIn' = tree
  /\ pc' = "annotated"
  /\ UNCHANGED <<regexLastIndex, calls, exportVars, qualityVars, studioVars, groupIndex>>

AnnotateAgain ==
  /\ pc = "annotated"
  /\ tree' = RemarkAttachSourceLine(tree)
  /\ treeIn' = tree
  /\ pc' = "reannotated"
  /\ UNCHANGED <<regexLastIndex, calls, exportVars, qualityVars, studioVars, groupIndex>>

NextAnnotate == Annotate \/ AnnotateAgain

SpecAnnotate == InitAnnotate /\ [][NextAnnotate]_vars

\* ------------------------------------------------------- the render call
\* renderMarkdownToHtml(markdown, options).  The parser is a library: a call
\* starts from the structural tree it returns (`markdown`, front-matter
\* blocks as yaml/toml nodes) and runs the passes in the order they are
\* registered (index.ts:484-504).  options.theme and options.inlineStyles are
\* <<>> when the caller leaves them out.
OptionThemes == {<<>>, <<WarmNoteTheme.id>>, <<BareTheme.id>>}

OptionFlags == {<<>>, <<TRUE>>, <<FALSE>>}

RenderOptions == [theme : OptionThemes, inlineStyles : OptionFlags]

\* options.theme is a reference to a theme object; the default is demoTheme.
ThemeReference(options) == Or(options.theme, <<DemoTheme.id>>)[1]

ThemeOption(options) == themes[ThemeReference(options)]

InlineStylesOption(options) == Or(options.inlineStyles, <<TRUE>>)[1]

NewCall(markdown, options) ==
  [pc |-> "parsed", markdown |-> markdown, options |-> options, mdast |-> markdown,
   tree |-> <<>>, html |-> <<>>]

\* Top-level blocks of a document; the block at position i starts on line i.
BlockShapes ==
  {"yaml", "toml", "h1", "h3", "p", "pmark", "pimg", "pimg2", "plink", "table", "code",
   "pcode", "html"}

UrlHttps == <<"h", "t", "t", "p", "s", ":", "/", "/", "a">>

BlockNode(shape, i) ==
  LET t(v) == MdText(v, i, 1)
      P(kids) == MdNode("paragraph", i, 1, kids)
  IN CASE shape = "yaml" -> MdLiteral("yaml", <<"t">>, i)
       [] shape = "toml" -> MdLiteral("toml", <<"t">>, i)
       [] shape = "h1" -> MdHeading(1, i, <<t(<<"a">>)>>)
       [] shape = "h3" -> MdHeading(3, i, <<t(<<"a">>)>>)
       [] shape = "p" -> P(<<t(<<"a", "&">>)>>)
       [] shape = "pmark" -> P(<<t(<<"=", "=", "a", "=", "=">>)>>)
       [] shape = "pimg" -> P(<<MdImage(UrlHttps, <<"a">>, i, 1)>>)
       [] shape = "pimg2" ->
            P(<<MdImage(UrlHttps, <<"a">>, i, 1), t(<<"\n">>), MdImage(UrlHttps, <<>>, i, 3)>>)
       [] shape = "plink" -> P(<<MdLink(UrlHttps, i, 1, <<t(<<"a">>)>>)>>)
       [] shape = "table" ->
            MdNode("table", i, 1,
              <<MdNode("tableHead", i, 1,
                  <<MdNode("tableRow", i, 1,
                      <<MdNode("tableHeaderCell", i, 1, <<t(<<"a">>)>>)>>)>>),
                MdNode("tableBody", i, 1,
                  <<MdNode("tableRow", i, 1,
                      <<MdNode("tableCell", i, 1, <<t(<<"a">>)>>)>>)>>)>>)
       [] shape = "code" -> MdLiteral("code", <<"a">>, i)
       [] shape = "pcode" -> P(<<MdLiteral("inlineCode", <<"a">>, i)>>)
       [] OTHER ->
            MdLiteral("html",
              <<OpenToken("p", NoProps), TextToken(<<"a">>), CloseToken("p")>>, i)

DocumentOf(shapes) == [i \in 1..Len(shapes) |-> BlockNode(shapes[i], i)]

RenderDocuments == {DocumentOf(shapes) : shapes \in SeqsUpTo(BlockShapes, MaxBlocks)}

\* The documents of the calls that run side by side.
SharedDocuments ==
  {DocumentOf(shapes) : shapes \in {<<"pmark">>, <<"p">>, <<"h1", "pmark">>, <<"pimg2">>}}

SharedOptions == [theme : {<<>>, <<WarmNoteTheme.id>>}, inlineStyles : {<<>>, <<FALSE>>}]

InitRender ==
  /\ pc = "input"
  /\ treeIn = <<>>
  /\ tree = <<>>
  /\ regexLastIndex = 0
  /\ ExportIdle /\ QualityIdle /\ StudioIdle /\ ScanIdle
  /\ \E markdown \in RenderDocuments, options \in RenderOptions :
       calls = <<NewCall(markdown, options)>>

InitConcurrent ==
  /\ pc = "input"
  /\ treeIn = <<>>
  /\ tree = <<>>
  /\ regexLastIndex = 0
  /\ ExportIdle /\ QualityIdle /\ StudioIdle /\ ScanIdle
  /\ \E m1 \in SharedDocuments, m2 \in SharedDocuments :
     \E o1 \in SharedOptions, o2 \in SharedOptions :
       calls = <<NewCall(m1, o1), NewCall(m2, o2)>>

PassFrame == UNCHANGED <<pc, treeIn, tree, regexLastIndex, exportVars, qualityVars, studioVars, groupIndex>>

StripFrontmatter(c) ==
  /\ calls[c].pc = "parsed"
  /\ calls' = [calls EXCEPT ![c].mdast = RemarkStripFrontmatter(@), ![c].pc = "stripped"]
  /\ PassFrame

AttachSourceLine(c) ==
  /\ calls[c].pc = "stripped"
  /\ calls' = [calls EXCEPT ![c].mdast = RemarkAttachSourceLine(@), ![c].pc = "annotated"]
  /\ PassFrame

Lower(c) ==
  /\ calls[c].pc = "annotated"
  /\ calls' = [calls EXCEPT ![c].tree = RemarkRehype(calls[c].mdast), ![c].pc = "lowered"]
  /\ PassFrame

Highlight(c) ==
  /\ calls[c].pc = "lowered"
  /\ LET r == RehypeHighlightMark(calls[c].tree, regexLastIndex) IN
       /\ calls' = [calls EXCEPT ![c].tree = r.children, ![c].pc = "highlighted"]
       /\ regexLastIndex' = r.cursor
  /\ UNCHANGED <<pc, treeIn, tree, exportVars, qualityVars, studioVars, groupIndex>>

ApplyTheme(c) ==
  /\ calls[c].pc = "highlighted"
  /\ InlineStylesOption(calls[c].options)
  /\ calls' = [calls EXCEPT
                 ![c].tree = CreateThemePlugin(ThemeOption(calls[c].options), @),
                 ![c].pc = "styled"]
  /\ themes' = [themes EXCEPT
                  ![ThemeReference(calls[c].options)] = ThemeAfterStyling(@)]
  /\ UNCHANGED <<pc, treeIn, tree, regexLastIndex, exportVars, qualityVars, ui, groupIndex>>

GroupImages(c) ==
  /\ \/ calls[c].pc = "styled"
     \/ calls[c].pc = "highlighted" /\ ~InlineStylesOption(calls[c].options)
  /\ calls' = [calls EXCEPT ![c].tree = GroupConsecutiveImagesPlugin(@), ![c].pc = "grouped"]
  /\ PassFrame

Stringify(c) ==
  /\ calls[c].pc = "grouped"
  /\ calls' = [calls EXCEPT ![c].html = RehypeStringify(calls[c].tree), ![c].pc = "done"]
  /\ PassFrame

\* The caller renders again: a finished call's slot takes a new call.
RenderAgain(c) ==
  /\ calls[c].pc = "done"
  /\ \E markdown \in SharedDocuments, options \in SharedOptions :
       calls' = [calls EXCEPT ![c] = NewCall(markdown, options)]
  /\ PassFrame

NextRender ==
  \/ \E c \in DOMAIN calls : StripFrontmatter(c)
  \/ \E c \in DOMAIN calls : AttachSourceLine(c)
  \/ \E c \in DOMAIN calls : Lower(c)
  \/ \E c \in DOMAIN calls : Highlight(c)
  \/ \E c \in DOMAIN calls : ApplyTheme(c)
  \/ \E c \in DOMAIN calls : GroupImages(c)
  \/ \E c \in DOMAIN calls : Stringify(c)

NextConcurrent ==
  \/ NextRender
  \/ \E c \in DOMAIN calls : RenderAgain(c)

SpecRender == InitRender /\ [][NextRender]_vars

SpecConcurrent == InitConcurrent /\ [][NextConcurrent]_vars

\* The whole call as one function, for stating what a call returns.
RenderMarkdownToHtml(markdown, options) ==
  LET lowered == RemarkRehype(RemarkAttachSourceLine(RemarkStripFrontmatter(markdown)))
      marked == RehypeHighlightMark(lowered, 0).children
      styled == IF InlineStylesOption(options)
                  THEN CreateThemePlugin(ThemeOption(options), marked)
                  ELSE marked
  IN RehypeStringify(GroupConsecutiveImagesPlugin(styled))

\* --------------------------------------------------------- quality checker
\* runQualityChecks(markdown): four visits over the tree remark-parse
\* returns, each pushing its issues in the order it meets the nodes.
HeadingTextLimit == 48

\* A variant of the visit that meets the nodes last to first.
RECURSIVE NodesOfTypeReversed(_, _)
NodesOfTypeReversed(children, type) ==
  Flatten([i \in 1..Len(children) |->
    LET node == children[Len(children) + 1 - i] IN
    NodesOfTypeReversed(node.children, type)
      \o (IF node.type = type THEN <<node>> ELSE <<>>)])

\* A variant of the visit that stays at the top level of the document.
NodesOfTypeTopLevel(children, type) == SelectSeq(children, LAMBDA n : n.type = type)

\* visit(tree, type, ...): the nodes of that type in document order, a node
\* before the nodes inside it.
RECURSIVE NodesOfType(_, _)
NodesOfType(children, type) ==
  Flatten([i \in 1..Len(children) |->
    (IF children[i].type = type THEN <<children[i]>> ELSE <<>>)
      \o NodesOfType(children[i].children, type)])

ToLocation(node) == [line |-> node.line, column |-> node.column]

Issue(type, message, node) ==
  [type |-> type, message |-> message, location |-> ToLocation(node)]

\* A variant of startsWith that accepts the search string at any offset.
StartsWithAnywhere(str, search) ==
  \E i \in 0..(Len(str) - Len(search)) : SubSeq(str, i + 1, i + Len(search)) = search

\* String.prototype.startsWith and includes.
StartsWith(str, search) ==
  Len(str) >= Len(search) /\ SubSeq(str, 1, Len(search)) = search

Includes(str, search) ==
  \E i \in 0..(Len(str) - Len(search)) : SubSeq(str, i + 1, i + Len(search)) = search

RECURSIVE TrimEnd(_)
TrimEnd(str) ==
  IF str # <<>> /\ IsSpace(str[Len(str)]) THEN TrimEnd(SubSeq(str, 1, Len(str) - 1)) ELSE str

Trim(str) == TrimEnd(SkipSpaces(str))

\* The heading's own children that carry a value, joined and trimmed
\* (index.ts:551-554); a child without one counts as ''.
HeadingText(node) == Trim(Flatten([i \in 1..Len(node.children) |-> node.children[i].value]))

\* A variant that keeps the running depth when it reports a jump.
NextHeadingDepthKept(last, node) ==
  IF last # 0 /\ node.depth > last + 1 THEN last ELSE node.depth

\* index.ts:549; the running depth is 0 while it is null.
NextHeadingDepth(last, node) == node.depth

HeadingIssues(last, node) ==
  (IF last # 0 /\ node.depth > last + 1
     THEN <<Issue("structure", <<"jump", Digit(last), Digit(node.depth)>>, node)>>
     ELSE <<>>)
  \o (IF Len(HeadingText(node)) > HeadingTextLimit
        THEN <<Issue("structure", <<"long">> \o Slice(HeadingText(node), 0, 20), node)>>
        ELSE <<>>)

RECURSIVE VisitHeadings(_, _, _, _)
VisitHeadings(headings, k, last, found) ==
  IF k > Len(headings) THEN [issues |-> found, lastHeadingDepth |-> last]
  ELSE VisitHeadings(headings, k + 1, NextHeadingDepth(last, headings[k]),
                     found \o HeadingIssues(last, headings[k]))

InsecurePrefix == <<"h", "t", "t", "p", ":", "/", "/">>

LinkIssues(node) ==
  (IF StartsWith(node.url, InsecurePrefix)
     THEN <<Issue("link-protocol", <<"link">> \o node.url, node)>> ELSE <<>>)
  \o (IF Len(node.children) = 0
        THEN <<Issue("accessibility", <<"link">> \o node.url, node)>> ELSE <<>>)

\* A variant that stops at the first issue an image raises.
ImageIssuesFirstOnly(node) ==
  IF ~Includes(node.url, <<":", "/", "/">>) /\ ~StartsWith(node.url, <<"d", "a", "t", "a", ":">>)
    THEN <<Issue("image-reference", <<"image">> \o node.url, node)>>
  ELSE IF StartsWith(node.url, InsecurePrefix)
    THEN <<Issue("link-protocol", <<"image">> \o node.url, node)>>
  ELSE IF Len(Trim(node.alt)) = 0
    THEN <<Issue("accessibility", <<"image">> \o node.url, node)>>
  ELSE <<>>

ImageIssues(node) ==
  (IF ~Includes(node.url, <<":", "/", "/">>) /\ ~StartsWith(node.url, <<"d", "a", "t", "a", ":">>)
     THEN <<Issue("image-reference", <<"image">> \o node.url, node)>> ELSE <<>>)
  \o (IF StartsWith(node.url, InsecurePrefix)
        THEN <<Issue("link-protocol", <<"image">> \o node.url, node)>> ELSE <<>>)
  \o (IF Len(Trim(node.alt)) = 0
        THEN <<Issue("accessibility", <<"image">> \o node.url, node)>> ELSE <<>>)

HtmlIssues(node) == <<Issue("html-embed", <<"html">>, node)>>

IssuesOf(nodes, NodeIssues(_)) == Flatten([k \in 1..Len(nodes) |-> NodeIssues(nodes[k])])

\* The visits of runQualityChecks (index.ts:540-618) over a parsed tree: the
\* issues it returns and the running heading depth it ends with.
RunQualityChecks(children) ==
  LET headings == VisitHeadings(NodesOfType(children, "heading"), 1, 0, <<>>) IN
  [issues |-> headings.issues
                \o IssuesOf(NodesOfType(children, "link"), LinkIssues)
                \o IssuesOf(NodesOfType(children, "image"), ImageIssues)
                \o IssuesOf(NodesOfType(children, "html"), HtmlIssues),
   lastHeadingDepth |-> headings.lastHeadingDepth]

\* unified().use(remarkParse).parse(markdown) (index.ts:533) on the text the
\* rendering pipeline parses with remark-frontmatter (index.ts:484-486).
\* `children` is the tree the rendering parse gives.  Without the front-matter
\* syntax a leading `---` fence is a thematic break and the lines of the
\* block, closed by `---`, are a setext heading of depth 2; a `+++` block is
\* a paragraph.
RemarkParseAlone(children) ==
  IF children = <<>> THEN children
  ELSE LET first == children[1] IN
       IF first.type = "yaml"
         THEN (IF first.value = <<>>
                 THEN <<MdNode("thematicBreak", 1, 1, <<>>), MdNode("thematicBreak", 2, 1, <<>>)>>
                 ELSE <<MdNode("thematicBreak", 1, 1, <<>>),
                        MdHeading(2, 2, <<MdText(first.value, 2, 1)>>)>>)
              \o Tail(children)
       ELSE IF first.type = "toml"
         THEN <<MdNode("paragraph", 1, 1,
                  <<MdText(<<"+", "+", "+", "\n">> \o first.value \o <<"\n", "+", "+", "+">>,
                           1, 1)>>)>>
              \o Tail(children)
       ELSE children

\* ------------------------------------------------------ export normalizer
\* prepareWechatExportHtml(html) of the web studio.  The markup is the token
\* sequence the serializer writes; doc.body is a sequence of element and text
\* nodes.
DecodeChar(c) ==
  IF c \in {"&#x26;", "&amp;"} THEN "&"
  ELSE IF c \in {"&#x3C;", "&lt;"} THEN "<"
  ELSE IF c = "&gt;" THEN ">" ELSE c

DecodeText(value) == [i \in 1..Len(value) |-> DecodeChar(value[i])]

Frame(tagName, props) == [tagName |-> tagName, props |-> props, children |-> <<>>]

\* The innermost open element ends: it becomes a child of the one around it.
PopFrame(stack) ==
  LET top == stack[Len(stack)]
      below == stack[Len(stack) - 1]
  IN SubSeq(stack, 1, Len(stack) - 2)
       \o <<[below EXCEPT !.children =
                            Append(@, ElementNode(top.tagName, top.props, top.children))]>>

RECURSIVE PopTo(_, _)
PopTo(stack, depth) == IF Len(stack) <= depth THEN stack ELSE PopTo(PopFrame(stack), depth)

AppendChild(stack, node) == [stack EXCEPT ![Len(stack)].children = Append(@, node)]

\* Character data joins the text node before it, when there is one.
AppendText(stack, value) ==
  LET kids == stack[Len(stack)].children IN
  IF kids # <<>> /\ kids[Len(kids)].type = "text"
    THEN [stack EXCEPT ![Len(stack)].children[Len(kids)].value = @ \o value]
    ELSE AppendChild(stack, TextNode(value))

Greatest(S) == CHOOSE x \in S : \A y \in S : x >= y

\* The tree builder of DOMParser: an end tag closes the nearest open element
\* of its name and everything opened inside it, an end tag without one is
\* dropped, and what is still open at the end of input is closed there.
RECURSIVE ParseTokens(_, _, _)
ParseTokens(tokens, i, stack) ==
  IF i > Len(tokens) THEN PopTo(stack, 1)[1].children
  ELSE LET t == tokens[i] IN
    IF t.kind = "text"
      THEN ParseTokens(tokens, i + 1, AppendText(stack, DecodeText(t.value)))
    ELSE IF t.kind = "open"
      THEN IF t.tagName \in VoidTags
             THEN ParseTokens(tokens, i + 1,
                              AppendChild(stack, ElementNode(t.tagName, t.props, <<>>)))
             ELSE ParseTokens(tokens, i + 1, Append(stack, Frame(t.tagName, t.props)))
    ELSE LET open == {d \in 2..Len(stack) : stack[d].tagName = t.tagName} IN
         IF open = {} THEN ParseTokens(tokens, i + 1, stack)
         ELSE ParseTokens(tokens, i + 1, PopTo(stack, Greatest(open) - 1))

\* parser.parseFromString(html, 'text/html'), as the children of doc.body.
ParseFromString(markup) == ParseTokens(markup, 1, <<Frame("body", NoProps)>>)

\* Element.innerHTML writes & < > of a text as named references.
EncodeChar(c) ==
  IF c = "&" THEN "&amp;" ELSE IF c = "<" THEN "&lt;" ELSE IF c = ">" THEN "&gt;" ELSE c

EncodeText(value) == [i \in 1..Len(value) |-> EncodeChar(value[i])]

RECURSIVE InnerHTML(_)
InnerHTMLOne(node) ==
  IF node.type = "text" THEN <<TextToken(EncodeText(node.value))>>
  ELSE IF node.tagName \in VoidTags THEN <<OpenToken(node.tagName, node.props)>>
  ELSE <<OpenToken(node.tagName, node.props)>> \o InnerHTML(node.children)
         \o <<CloseToken(node.tagName)>>

InnerHTML(children) == Flatten([i \in 1..Len(children) |-> InnerHTMLOne(children[i])])

\* html.trim() is empty: the markup is nothing but white-space text.
MarkupIsBlank(markup) ==
  \A i \in 1..Len(markup) : markup[i].kind = "text" /\ TrimIsEmpty(markup[i].value)

\* querySelectorAll('.' + className) below `children`, in document order.
RECURSIVE QuerySelectorAllClass(_, _)
QuerySelectorAllClass(children, className) ==
  Flatten([i \in 1..Len(children) |->
    IF children[i].type # "element" THEN <<>>
    ELSE (IF children[i].props.className = className THEN <<children[i]>> ELSE <<>>)
           \o QuerySelectorAllClass(children[i].children, className)])

\* querySelectorAll(tagName) below `children`, in document order.
RECURSIVE QuerySelectorAllTag(_, _)
QuerySelectorAllTag(children, tagName) ==
  Flatten([i \in 1..Len(children) |->
    IF children[i].type # "element" THEN <<>>
    ELSE (IF children[i].tagName = tagName THEN <<children[i]>> ELSE <<>>)
           \o QuerySelectorAllTag(children[i].children, tagName)])

\* A variant of the fallback that lays four images out in three columns.
ResolveColumnsOff(count) ==
  IF count >= 3 THEN 3 ELSE IF count = 2 THEN 2 ELSE 1

ResolveColumns(count) ==
  IF count = 3 \/ count >= 5 THEN 3
  ELSE IF count = 2 \/ count = 4 THEN 2
  ELSE 1

GridItems(grid) == QuerySelectorAllClass(grid.children, "wechat-multi-image-item")

GridColumns(grid) ==
  LET explicitColumns == ParseInt(grid.props.columns) IN
  IF explicitColumns.isNaN THEN ResolveColumns(Len(GridItems(grid)))
  ELSE explicitColumns.value

ExportTableStyle ==
  <<Decl("width", <<"100% !important">>), Decl("border-collapse", <<"collapse !important">>),
    Decl("margin", <<"20px auto !important">>), Decl("table-layout", <<"fixed !important">>),
    Decl("border", <<"none !important">>), Decl("background", <<"transparent !important">>)>>

\* (100 / columns).toFixed(2) for columns >= 1: rounded to hundredths.
ToFixed2(columns) ==
  LET hundredths == (20000 + columns) \div (2 * columns) IN
  NumberToString(hundredths \div 100)
    \o <<".", Digit((hundredths % 100) \div 10), Digit(hundredths % 10)>>

CellWidth(columns) == ToFixed2(columns) \o <<"% !important">>

ExportCellStyle(columns) ==
  <<Decl("padding", <<"6px !important">>), Decl("vertical-align", <<"top !important">>),
    Decl("width", CellWidth(columns)), Decl("border", <<"none !important">>),
    Decl("background", <<"transparent !important">>)>>

ExportOuterStyle ==
  <<Decl("width", <<"100% !important">>), Decl("height", <<"100% !important">>),
    Decl("background-color", <<"#f5f7fb !important">>),
    Decl("border-radius", <<"12px !important">>), Decl("padding", <<"10px !important">>),
    Decl("box-sizing", <<"border-box !important">>), Decl("display", <<"table !important">>)>>

ExportInnerStyle ==
  <<Decl("display", <<"table-cell !important">>),
    Decl("vertical-align", <<"middle !important">>),
    Decl("text-align", <<"center !important">>)>>

ExportImageStyle ==
  <<Decl("max-width", <<"100% !important">>), Decl("height", <<"auto !important">>),
    Decl("width", <<"auto !important">>), Decl("margin", <<"0 auto !important">>),
    Decl("display", <<"inline-block !important">>)>>

\* Math.floor(count / columns), a variant of the row count that rounds down.
MathFloorDiv(count, columns) ==
  IF columns > 0 THEN count \div columns ELSE 0 - ((count + (0 - columns) - 1) \div (0 - columns))

\* Math.ceil(count / columns) for columns # 0.
MathCeilDiv(count, columns) ==
  IF columns > 0 THEN (count + columns - 1) \div columns
  ELSE 0 - (count \div (0 - columns))

\* The cell at cellIndex (part_004:56-116): the item's first image, cloned
\* and wrapped twice, or nothing when there is no such item or image.
ExportCell(items, cellIndex, columns) ==
  LET imgs == IF cellIndex < Len(items)
                THEN QuerySelectorAllTag(items[cellIndex + 1].children, "img")
                ELSE <<>>
      content ==
        IF imgs = <<>> THEN <<>>
        ELSE LET img == imgs[1]
                 clonedImg == [img EXCEPT !.props.style = @ \o ExportImageStyle]
             IN <<ElementNode("div", [NoProps EXCEPT !.style = ExportOuterStyle],
                    <<ElementNode("div", [NoProps EXCEPT !.style = ExportInnerStyle],
                        <<clonedImg>>)>>)>>
  IN ElementNode("td", [NoProps EXCEPT !.style = ExportCellStyle(columns)], content)

ExportRow(items, rowIndex, columns) ==
  ElementNode("tr", NoProps,
    [columnIndex \in 1..columns |->
       ExportCell(items, rowIndex * columns + (columnIndex - 1), columns)])

\* The table that replaces `grid` (part_004:29-119), for columns # 0.
ExportTable(grid) ==
  LET items == GridItems(grid)
      columns == GridColumns(grid)
      rows == MathCeilDiv(Len(items), columns)
  IN ElementNode("table",
       [NoProps EXCEPT !.style = ExportTableStyle,
                       !.sourceLine = IF grid.props.sourceLine # 0
                                        THEN grid.props.sourceLine ELSE 0],
       [rowIndex \in 1..rows |-> ExportRow(items, rowIndex - 1, columns)])

IsGrid(node) == node.type = "element" /\ node.props.className = "wechat-multi-image-grid"

IsConverted(node) == IsGrid(node) /\ Len(GridItems(node)) >= 2

\* The grids the forEach replaces, in document order: a grid inside a
\* replaced grid has left the document with it.
RECURSIVE ConvertedGrids(_)
ConvertedGrids(children) ==
  Flatten([i \in 1..Len(children) |->
    IF IsConverted(children[i]) THEN <<children[i]>>
    ELSE IF children[i].type = "element" THEN ConvertedGrids(children[i].children)
    ELSE <<>>])

\* With zero columns the row count is Infinity and the row loop
\* (part_004:52-119) never ends.
NeverEnds(children) ==
  \E k \in 1..Len(ConvertedGrids(children)) : GridColumns(ConvertedGrids(children)[k]) = 0

RECURSIVE ConvertMultiImageGridToTable(_)
ConvertMultiImageGridToTable(children) ==
  [i \in 1..Len(children) |->
    IF IsConverted(children[i]) THEN ExportTable(children[i])
    ELSE IF children[i].type = "element"
      THEN [children[i] EXCEPT !.children = ConvertMultiImageGridToTable(@)]
    ELSE children[i]]

\* What the catch block hands back, with doc as the failure left it.
CaughtResultPartial(markup, body) == InnerHTML(body)

CaughtResult(markup, body) == markup

\* ------------------------------------------- inputs of blockquote styling
\* Themes the schema accepts that differ in what the accent colour of a
\* blockquote can be resolved from: palette entries that are missing, empty
\* or a colour, and an accentColor that is missing, empty, the key of a
\* palette entry, a key the palette lacks, or a colour.
PaletteValues == {<<>>, <<"">>, <<"#111111">>}

AccentColors == {<<>>, <<"">>, <<"primary">>, <<"muted">>, <<"accent">>, <<"#FF0000">>}

BlockquoteThemes ==
  {[DemoTheme EXCEPT !.id = "custom",
                     !.color.primary = primary,
                     !.color.muted = muted,
                     !.blockquote.accentColor = accentColor,
                     !.blockquote.borderWidth = borderWidth] :
     primary \in PaletteValues, muted \in PaletteValues,
     accentColor \in AccentColors, borderWidth \in {<<>>, <<2>>}}

QuotedParagraph ==
  ElementNode("blockquote", [NoProps EXCEPT !.sourceLine = 1],
    <<ElementNode("p", NoProps, <<TextNode(<<"a">>)>>)>>)

InitBlockquote ==
  /\ pc = "input"
  /\ treeIn = <<QuotedParagraph>>
  /\ tree = treeIn
  /\ regexLastIndex = 0
  /\ calls = NoCalls
  /\ ExportIdle /\ QualityIdle /\ ScanIdle
  /\ themes \in {[id \in {"custom"} |-> theme] : theme \in BlockquoteThemes}
  /\ ui = InitialUi

\* The theme plugin run on the tree with the theme (index.ts:88-216).
StyleBlockquote ==
  /\ pc = "input"
  /\ tree' = CreateThemePlugin(themes["custom"], tree)
  /\ themes' = [themes EXCEPT !["custom"] = ThemeAfterStyling(@)]
  /\ pc' = "styled"
  /\ UNCHANGED <<treeIn, regexLastIndex, calls, exportVars, qualityVars, ui, groupIndex>>

NextBlockquote == StyleBlockquote

SpecBlockquote == InitBlockquote /\ [][NextBlockquote]_vars

\* ------------------------------------------------- inputs of the export
\* The data-columns attribute of a grid: absent, a count, or other text.
ColumnAttributes ==
  {<<>>, <<"-", "1">>, <<"x">>, <<"2", "x">>} \cup {NumberToString(c) : c \in 0..MaxColumns}

ExportImage(i, line) == ImgNode(<<"s", Digit(i)>>, line)

\* A grid as the grouping pass builds it for n images, with the persisted
\* column attribute set to columnsAttr; `hollow` empties its last item.
GridNode(n, columnsAttr, line, hollow) ==
  LET grid == CreateMultiImageContainer([i \in 1..n |-> ExportImage(i, line)], line) IN
  [grid EXCEPT !.props.columns = columnsAttr,
               !.children = [i \in 1..n |->
                               IF hollow /\ i = n THEN [@[i] EXCEPT !.children = <<>>]
                               ELSE @[i]]]

ExportGrids ==
  {GridNode(n, a, line, hollow) :
     n \in 0..MaxImages, a \in ColumnAttributes, line \in {0, 3}, hollow \in BOOLEAN}

PairedGrids == {GridNode(n, <<>>, 3, FALSE) : n \in 1..3}

ExportParagraph == ElementNode("p", NoProps, <<TextNode(<<"a", "&", "b">>)>>)

ExportTrees ==
  {<<g>> : g \in ExportGrids}
    \cup {<<ExportParagraph, TextNode(<<"\n">>), g>> : g \in ExportGrids}
    \cup {<<ElementNode("blockquote", NoProps, <<g>>)>> : g \in PairedGrids}
    \cup {<<g1, g2>> : g1 \in PairedGrids, g2 \in PairedGrids}

\* Markup the renderer returns for documents without and with images.
RenderedMarkup ==
  {RenderMarkdownToHtml(DocumentOf(shapes), [theme |-> <<>>, inlineStyles |-> f]) :
     shapes \in {<<"p">>, <<"h1", "pmark">>, <<"pimg">>, <<"pimg2">>, <<"table">>, <<"html">>},
     f \in {<<>>, <<FALSE>>}}

BlankMarkup == {<<>>, <<TextToken(<<" ">>)>>, <<TextToken(<<"\n", " ">>)>>}

\* Markup with an element left open and with an end tag that opens nothing.
LooseMarkup ==
  {<<OpenToken("p", NoProps), TextToken(<<"a">>)>>,
   <<TextToken(<<"a">>), CloseToken("div")>>}

ExportInputs ==
  {RehypeStringify(t) : t \in ExportTrees} \cup RenderedMarkup \cup BlankMarkup
    \cup LooseMarkup

InitExport ==
  /\ pc = "input"
  /\ treeIn = <<>>
  /\ tree = <<>>
  /\ regexLastIndex = 0
  /\ calls = NoCalls
  /\ QualityIdle /\ StudioIdle /\ ScanIdle
  /\ html \in ExportInputs
  /\ doc = <<>>
  /\ result = <<>>

ExportFrame == UNCHANGED <<treeIn, tree, regexLastIndex, calls, qualityVars, studioVars, groupIndex, html>>

\* part_004:2-4
ReturnBlank ==
  /\ pc = "input"
  /\ MarkupIsBlank(html)
  /\ result' = html
  /\ pc' = "returned"
  /\ UNCHANGED doc
  /\ ExportFrame

\* part_004:7-8
Parse ==
  /\ pc = "input"
  /\ ~MarkupIsBlank(html)
  /\ doc' = ParseFromString(html)
  /\ pc' = "parsed"
  /\ UNCHANGED result
  /\ ExportFrame

\* part_004:7-8 throws (no DOMParser in the environment, for one).
ParseThrows ==
  /\ pc = "input"
  /\ ~MarkupIsBlank(html)
  /\ pc' = "caught"
  /\ UNCHANGED <<doc, result>>
  /\ ExportFrame

\* part_004:9
ConvertGrids ==
  /\ pc = "parsed"
  /\ ~NeverEnds(doc)
  /\ doc' = ConvertMultiImageGridToTable(doc)
  /\ pc' = "converted"
  /\ UNCHANGED result
  /\ ExportFrame

\* part_004:9 enters a row loop that never ends; nothing is returned.
ConvertNeverEnds ==
  /\ pc = "parsed"
  /\ NeverEnds(doc)
  /\ pc' = "looping"
  /\ UNCHANGED <<doc, result>>
  /\ ExportFrame

\* part_004:9 throws, before or after it has rewritten doc.
ConvertThrows ==
  /\ pc = "parsed"
  /\ ~NeverEnds(doc)
  /\ doc' \in {doc, ConvertMultiImageGridToTable(doc)}
  /\ pc' = "caught"
  /\ UNCHANGED result
  /\ ExportFrame

\* part_004:10
ReturnBody ==
  /\ pc = "converted"
  /\ result' = InnerHTML(doc)
  /\ pc' = "returned"
  /\ UNCHANGED doc
  /\ ExportFrame

\* part_004:11-14
ReturnOriginal ==
  /\ pc = "caught"
  /\ result' = CaughtResult(html, doc)
  /\ pc' = "recovered"
  /\ UNCHANGED doc
  /\ ExportFrame

NextExport ==
  \/ ReturnBlank
  \/ Parse
  \/ ParseThrows
  \/ ConvertGrids
  \/ ConvertNeverEnds
  \/ ConvertThrows
  \/ ReturnBody
  \/ ReturnOriginal

SpecExport == InitExport /\ [][NextExport]_vars

\* ------------------------------------------- inputs of the quality checker
\* Top-level blocks of a checked document; the block at position i starts on
\* line i, and what is inside it sits at later columns of that line.
CheckedShapes ==
  {"h1", "h2", "h4", "qh3", "hlong", "hstrong", "plink", "pimg", "plinkimg", "purl", "html"}

UrlHttp == InsecurePrefix \o <<"a">>

UrlUpperCase == <<"H", "T", "T", "P", ":", "/", "/", "a">>

UrlQuery == <<"a", "?">> \o UrlHttp

CheckedNode(shape, i) ==
  LET t(v, col) == MdText(v, i, col)
      P(kids) == MdNode("paragraph", i, 1, kids)
  IN CASE shape = "h1" -> MdHeading(1, i, <<t(<<"a">>, 3)>>)
       [] shape = "h2" -> MdHeading(2, i, <<t(<<"a">>, 4)>>)
       [] shape = "h4" -> MdHeading(4, i, <<t(<<"a">>, 6)>>)
       [] shape = "qh3" ->
            MdNode("blockquote", i, 1,
              <<[MdHeading(3, i, <<t(<<"a">>, 7)>>) EXCEPT !.column = 3],
                [MdLiteral("html", <<OpenToken("br", NoProps)>>, i) EXCEPT !.column = 9]>>)
       [] shape = "hlong" ->
            MdHeading(2, i, <<t([k \in 1..(HeadingTextLimit + 1) |-> "a"], 4)>>)
       [] shape = "hstrong" ->
            MdHeading(2, i,
              <<MdNode("strong", i, 4,
                  <<t([k \in 1..(HeadingTextLimit + 1) |-> "a"], 6)>>)>>)
       [] shape = "plink" ->
            P(<<MdLink(UrlHttp, i, 1, <<t(<<"a">>, 2)>>), t(<<" ">>, 5),
                MdLink(UrlHttps, i, 6, <<>>)>>)
       [] shape = "pimg" ->
            P(<<MdImage(UrlHttp, <<"a">>, i, 1), t(<<" ">>, 5),
                MdImage(<<"a", ".", "p", "n", "g">>, <<>>, i, 6)>>)
       [] shape = "plinkimg" ->
            P(<<MdLink(UrlHttps, i, 1, <<MdImage(UrlHttp, <<" ">>, i, 2)>>)>>)
       [] shape = "purl" ->
            P(<<MdLink(UrlUpperCase, i, 1, <<t(<<"a">>, 2)>>), t(<<" ">>, 5),
                MdImage(UrlQuery, <<"a">>, i, 6), MdImage(UrlHttps, <<>>, i, 9)>>)
       [] OTHER ->
            MdLiteral("html",
              <<OpenToken("p", NoProps), TextToken(<<"a">>), CloseToken("p")>>, i)

CheckedDocuments ==
  {[i \in 1..Len(shapes) |-> CheckedNode(shapes[i], i)] :
     shapes \in SeqsUpTo(CheckedShapes, MaxChecked)}

InitQuality ==
  /\ pc = "input"
  /\ treeIn \in CheckedDocuments
  /\ tree = treeIn
  /\ regexLastIndex = 0
  /\ calls = NoCalls
  /\ ExportIdle
  /\ QualityIdle /\ StudioIdle /\ ScanIdle

QualityFrame == UNCHANGED <<treeIn, tree, regexLastIndex, calls, exportVars, studioVars, groupIndex>>

\* index.ts:540-562
CheckHeadings ==
  /\ pc = "input"
  /\ LET r == VisitHeadings(NodesOfType(tree, "heading"), 1, lastHeadingDepth, issues) IN
       /\ issues' = r.issues
       /\ lastHeadingDepth' = r.lastHeadingDepth
  /\ pc' = "headings"
  /\ QualityFrame

\* index.ts:564-580
CheckLinks ==
  /\ pc = "headings"
  /\ LET links == NodesOfType(tree, "link") IN
       issues' = issues \o Flatten([k \in 1..Len(links) |-> LinkIssues(links[k])])
  /\ pc' = "links"
  /\ UNCHANGED lastHeadingDepth
  /\ QualityFrame

\* index.ts:582-606
CheckImages ==
  /\ pc = "links"
  /\ LET images == NodesOfType(tree, "image") IN
       issues' = issues \o Flatten([k \in 1..Len(images) |-> ImageIssues(images[k])])
  /\ pc' = "images"
  /\ UNCHANGED lastHeadingDepth
  /\ QualityFrame

\* index.ts:608-616
CheckHtml ==
  /\ pc = "images"
  /\ LET embeds == NodesOfType(tree, "html") IN
       issues' = issues \o Flatten([k \in 1..Len(embeds) |-> HtmlIssues(embeds[k])])
  /\ pc' = "checked"
  /\ UNCHANGED lastHeadingDepth
  /\ QualityFrame

NextQuality ==
  \/ CheckHeadings
  \/ CheckLinks
  \/ CheckImages
  \/ CheckHtml

SpecQuality == InitQuality /\ [][NextQuality]_vars

\* ------------------------------ documents that open with front matter
\* What a document opens with: nothing, a yaml block with a short line, with
\* a line longer than the heading limit, with no line, or a toml block.
FrontMatters ==
  {<<>>,
   <<MdLiteral("yaml", <<"t", ":", " ", "a">>, 1)>>,
   <<MdLiteral("yaml", [k \in 1..(HeadingTextLimit + 1) |-> "t"], 1)>>,
   <<MdLiteral("yaml", <<>>, 1)>>,
   <<MdLiteral("toml", <<"t", "=", "1">>, 1)>>}

\* The lines a front-matter block takes: its fences and its content.
FrontMatterLines(front) ==
  IF front = <<>> THEN 0 ELSE IF front[1].value = <<>> THEN 2 ELSE 3

BodyShapes == {"h1", "h4", "plink"}

FrontMatterDocuments ==
  {front \o [i \in 1..Len(shapes) |-> CheckedNode(shapes[i], i + FrontMatterLines(front))] :
     front \in FrontMatters, shapes \in SeqsUpTo(BodyShapes, MaxChecked)}

\* treeIn is the document as the rendering pipeline parses it.
InitFrontMatter ==
  /\ pc = "input"
  /\ treeIn \in FrontMatterDocuments
  /\ tree = treeIn
  /\ regexLastIndex = 0
  /\ calls = NoCalls
  /\ ExportIdle
  /\ QualityIdle /\ StudioIdle /\ ScanIdle

\* index.ts:533
ParseForChecks ==
  /\ pc = "input"
  /\ tree' = RemarkParseAlone(treeIn)
  /\ pc' = "parsed"
  /\ UNCHANGED <<treeIn, regexLastIndex, calls, exportVars, qualityVars, studioVars, groupIndex>>

\* index.ts:534-618
CheckParsed ==
  /\ pc = "parsed"
  /\ issues' = RunQualityChecks(tree).issues
  /\ lastHeadingDepth' = RunQualityChecks(tree).lastHeadingDepth
  /\ pc' = "checked"
  /\ QualityFrame

NextFrontMatter ==
  \/ ParseForChecks
  \/ CheckParsed

SpecFrontMatter == InitFrontMatter /\ [][NextFrontMatter]_vars

\* ------------------------------------------------ the studio's theme box
\* What a user can put into the theme JSON box: text that is not JSON, JSON
\* that is no object, and theme objects whose id, colour map and heading line
\* height are present or missing, well typed or not.
RequiredColors == {"primary", "text", "background"}

ThemeColorMaps ==
  {[k \in keys |-> Str("#111111")] :
     keys \in {RequiredColors, {}} \cup {RequiredColors \ {k} : k \in RequiredColors}}
  \cup {[k \in RequiredColors |-> IF k = "primary" THEN Num("1") ELSE Str("#111111")]}

JsonTheme(id, color, lineHeight) ==
  [id |-> id, version |-> Str("1.0.0"), metadata |-> [name |-> Str("Mine")],
   tokens |->
     [color |-> color,
      typography |->
        [fontFamily |-> Str("serif"),
         heading |-> [lineHeight |-> lineHeight, weight |-> Num("600"),
                      fontFamily |-> Undefined],
         body |-> [lineHeight |-> Num("1.7"), weight |-> Num("400"),
                   fontFamily |-> Str("serif")]],
      spacing |-> [k \in {"paragraph"} |-> Num("16")]],
   components |-> [k \in {} |-> Undefined]]

JsonThemes ==
  {JsonTheme(id, color, Num("1.5")) :
     id \in {Undefined, Str("my-theme"), Str("warm-note")}, color \in ThemeColorMaps}
  \cup {JsonTheme(Str("my-theme"), [k \in RequiredColors |-> Str("#111111")], Undefined)}

ThemeJsonInputs ==
  {JsonText("", <<>>), JsonText("{", <<>>), JsonText("5", <<Num("5")>>)}
    \cup {JsonText("{...}", <<theme>>) : theme \in JsonThemes}

OverrideInputs ==
  {<<"primaryColor", <<"#", "0", "0", "0">>>>, <<"primaryColor", <<>>>>,
   <<"paragraphSpacing", <<"2", "0">>>>, <<"paragraphSpacing", <<"a">>>>}

InitStudio ==
  /\ pc = "input"
  /\ treeIn = <<>>
  /\ tree = <<>>
  /\ regexLastIndex = 0
  /\ calls = NoCalls
  /\ ExportIdle /\ QualityIdle /\ StudioIdle /\ ScanIdle

StudioFrame ==
  UNCHANGED <<treeIn, tree, regexLastIndex, calls, exportVars, qualityVars, themes, groupIndex>>

\* onChange of the theme JSON box (part_003:823).
ChangeThemeJsonInput ==
  /\ \E input \in ThemeJsonInputs : ui' = [ui EXCEPT !.themeJsonInput = input]
  /\ pc' = "setThemeJsonInput"
  /\ StudioFrame

ApplyThemeJson ==
  /\ ui' = ApplyThemeJsonState(ui)
  /\ pc' = "applyThemeJson"
  /\ StudioFrame

ClearCustomTheme ==
  /\ ui' = ClearCustomThemeState(ui)
  /\ pc' = "clearCustomTheme"
  /\ StudioFrame

\* onChange of the theme select (part_003:579-582): the options are the
\* built-in themes and the custom theme when its id is not a built-in one.
SelectTheme ==
  /\ \E id \in BuiltinThemeIds \cup
               (IF ui.customTheme = <<>> THEN {} ELSE {ui.customTheme[1].id.text}) :
       ui' = [ui EXCEPT !.themeId = id]
  /\ pc' = "setThemeId"
  /\ StudioFrame

HandleThemeOverrideChange ==
  /\ \E change \in OverrideInputs :
       ui' = [ui EXCEPT !.themeOverrides = ThemeOverrideChange(@, change[1], change[2])]
  /\ pc' = "handleThemeOverrideChange"
  /\ StudioFrame

\* resetOverrides (part_003:493-495).
ResetOverrides ==
  /\ ui' = [ui EXCEPT !.themeOverrides = NoOverrides]
  /\ pc' = "resetOverrides"
  /\ StudioFrame

NextStudio ==
  \/ ChangeThemeJsonInput
  \/ ApplyThemeJson
  \/ ClearCustomTheme
  \/ SelectTheme
  \/ HandleThemeOverrideChange
  \/ ResetOverrides

SpecStudio == InitStudio /\ [][NextStudio]_vars

\* ------------------------------------------------- the studio's preview
\* The render effect of App (part_003:309-331).  `calls` holds one entry per
\* run of the effect, oldest first: the text and theme its closure captured,
\* its `cancelled` flag, and whether its render has settled.
MaxRenders == 4

PreviewTexts ==
  {DefaultMarkdown, DocumentOf(<<"p">>), DocumentOf(<<"h1", "h3">>)}

\* A variant of the test that lets a superseded render write its result.
SupersededNever(render) == FALSE

\* `cancelled`, as the continuation reads it (part_003:315, 323).
Superseded(render) == render.cancelled

\* The dependencies [markdown, activeTheme] differ from those the effect
\* last ran with, or the component has just mounted.  With no custom theme
\* and no overrides activeTheme is the built-in theme themeId names.
EffectDue ==
  IF calls = NoCalls THEN TRUE
  ELSE calls[Len(calls)].markdown # ui.markdown \/ calls[Len(calls)].themeId # ui.themeId

PreviewOf(markdown, themeId) ==
  RenderMarkdownToHtml(markdown, [theme |-> <<themeId>>, inlineStyles |-> <<>>])

IssuesOfText(markdown) == RunQualityChecks(RemarkParseAlone(markdown)).issues

InitPreview ==
  /\ pc = "input"
  /\ treeIn = <<>>
  /\ tree = <<>>
  /\ regexLastIndex = 0
  /\ calls = NoCalls
  /\ ExportIdle /\ QualityIdle /\ StudioIdle /\ ScanIdle

PreviewFrame ==
  UNCHANGED <<treeIn, tree, regexLastIndex, exportVars, qualityVars, themes, groupIndex>>

\* onChange of the editor (part_003:628) or a template (part_003:396).  React
\* runs the effects of one update before it takes the next.
SetMarkdown ==
  /\ ~EffectDue
  /\ Len(calls) < MaxRenders
  /\ \E text \in PreviewTexts \ {ui.markdown} : ui' = [ui EXCEPT !.markdown = text]
  /\ pc' = "setMarkdown"
  /\ UNCHANGED calls
  /\ PreviewFrame

\* onChange of the theme select (part_003:579-582).
SetThemeId ==
  /\ ~EffectDue
  /\ Len(calls) < MaxRenders
  /\ \E id \in BuiltinThemeIds \ {ui.themeId} : ui' = [ui EXCEPT !.themeId = id]
  /\ pc' = "setThemeId"
  /\ UNCHANGED calls
  /\ PreviewFrame

\* The effect runs again (part_003:309-331): the cleanup of its last run sets
\* that run's `cancelled`, then render() starts with the current text and
\* theme and sets isRendering.
RunEffect ==
  /\ EffectDue
  /\ calls' = [k \in 1..Len(calls) |->
                 IF k = Len(calls) THEN [calls[k] EXCEPT !.cancelled = TRUE] ELSE calls[k]]
               \o <<[markdown |-> ui.markdown, themeId |-> ui.themeId,
                      cancelled |-> FALSE, settled |-> FALSE]>>
  /\ ui' = [ui EXCEPT !.isRendering = TRUE]
  /\ pc' = "render"
  /\ PreviewFrame

\* The await of a render returns (part_003:314-325), whichever render it is.
Settle ==
  /\ \E k \in 1..Len(calls) :
       /\ ~calls[k].settled
       /\ calls' = [calls EXCEPT ![k].settled = TRUE]
       /\ ui' = IF Superseded(calls[k]) THEN ui
                ELSE [ui EXCEPT !.htmlPreview = PreviewOf(calls[k].markdown, calls[k].themeId),
                                !.qualityIssues = IssuesOfText(calls[k].markdown),
                                !.isRendering = FALSE]
  /\ pc' = "settled"
  /\ PreviewFrame

NextPreview ==
  \/ SetMarkdown
  \/ SetThemeId
  \/ RunEffect
  \/ Settle

SpecPreview == InitPreview /\ [][NextPreview]_vars

\* ------------------------------------------------------------- claim C1
IsGridContainer(node) ==
  node.type = "element" /\ node.props.className = "wechat-multi-image-grid"

\* A sibling belongs to a run when it is white-space text or bears an image.
IsRunElement(node) == IsWhitespaceText(node) \/ Len(ExtractImagesFromNode(node)) > 0

RunStart(s, j) ==
  CHOOSE a \in 1..j : /\ \A k \in a..j : IsRunElement(s[k])
                      /\ (a = 1 \/ ~IsRunElement(s[a - 1]))

RunEnd(s, j) ==
  CHOOSE b \in j..Len(s) : /\ \A k \in j..b : IsRunElement(s[k])
                           /\ (b = Len(s) \/ ~IsRunElement(s[b + 1]))

RunImageCount(s, a) ==
  SumSeq([k \in 1..(RunEnd(s, a) - a + 1) |-> Len(ExtractImagesFromNode(s[a + k - 1]))])

\* First positions of the maximal runs of s that hold two or more images.
QualifyingRuns(s) ==
  {a \in 1..Len(s) : /\ IsRunElement(s[a])
                     /\ RunStart(s, a) = a
                     /\ RunImageCount(s, a) >= 2}

\* Siblings swallowed by the containers that stand before the run starting at a.
ConsumedBefore(s, a) ==
  Cardinality({j \in 1..(a - 1) : /\ IsRunElement(s[j])
                                  /\ RunStart(s, j) # j
                                  /\ RunStart(s, j) \in QualifyingRuns(s)})

SpecColumns(n) ==
  IF n \in {2, 4} THEN 2 ELSE IF n = 3 THEN 3 ELSE IF n >= 5 THEN 3 ELSE 1

TotalImages(s) == SumSeq([k \in 1..Len(s) |-> Len(ExtractImagesFromNode(s[k]))])

\* C1: after the grouping pass every maximal run of top-level siblings holding
\* n >= 2 extracted images stands replaced by exactly one grid container, at the
\* run's position, whose data-image-count reads n, whose data-columns reads the
\* column function of n (2 for n in {2,4}, 3 for n = 3 and n >= 5) and which
\* wraps n images; there are no other containers, and a sibling list holding a
\* single image comes out unchanged, without a container.
C1_GroupingContainers ==
  pc = "grouped" =>
    /\ \A a \in QualifyingRuns(treeIn) :
         LET n == RunImageCount(treeIn, a)
             pos == a - ConsumedBefore(treeIn, a)
         IN /\ pos \in 1..Len(tree)
            /\ IsGridContainer(tree[pos])
            /\ ParseInt(tree[pos].props.imageCount) = [isNaN |-> FALSE, value |-> n]
            /\ ParseInt(tree[pos].props.columns) = [isNaN |-> FALSE, value |-> SpecColumns(n)]
            /\ Len(tree[pos].children) = n
    /\ Cardinality({i \in 1..Len(tree) : IsGridContainer(tree[i])})
         = Cardinality(QualifyingRuns(treeIn))
    /\ Len(tree) = Len(treeIn) - ConsumedBefore(treeIn, Len(treeIn) + 1)
    /\ (TotalImages(treeIn) = 1 => tree = treeIn)

\* C1 witness: a run of three images came out as one container of three.
C1_Witness ==
  /\ pc = "grouped"
  /\ \E i \in 1..Len(tree) :
       /\ IsGridContainer(tree[i])
       /\ Len(tree[i].children) = 3
       /\ tree[i].props.columns = <<"3">>
  /\ Len(tree) < Len(treeIn)

\* ------------------------------------------------------------- claim C2
\* The source text a produced child stands for: a mark is its content between
\* two delimiters, a text node is its value.
WrittenForm(node) ==
  IF node.type = "element" /\ node.tagName = "mark"
    THEN <<"=", "=">> \o node.children[1].value \o <<"=", "=">>
    ELSE node.value

\* value holds a complete delimited span: an opening ==, at least one
\* character, a closing ==.
HasCompleteSpan(value) ==
  \E s \in 1..Len(value) : \E j \in (s + 3)..Len(value) :
    IsDelimiterAt(value, s) /\ IsDelimiterAt(value, j)

\* Position in the source text of the first character of child k.
OffsetOf(kids, k) == 1 + SumSeq([i \in 1..(k - 1) |-> Len(WrittenForm(kids[i]))])

\* C2: for every text value under a paragraph, the highlight pass leaves the
\* node alone when the value holds no complete ==..== span, and otherwise puts
\* in its place plain text and mark elements in source order: writing == back
\* around each mark and concatenating gives the original value, every mark is
\* non-empty and is exactly the shortest content between its opening == and
\* the next closing ==, and no plain piece still holds a complete span.
C2_HighlightSegments ==
  (pc = "highlighted" /\ treeIn[1].type = "element" /\ treeIn[1].tagName = "p") =>
    LET value == treeIn[1].children[1].value
        kids == tree[1].children
    IN /\ Len(tree) = 1
       /\ tree[1].tagName = "p"
       /\ Flatten([k \in 1..Len(kids) |-> WrittenForm(kids[k])]) = value
       /\ (~HasCompleteSpan(value) => tree = treeIn)
       /\ (HasCompleteSpan(value) =>
             \E k \in 1..Len(kids) : kids[k].type = "element" /\ kids[k].tagName = "mark")
       /\ \A k \in 1..Len(kids) :
            IF kids[k].type = "element"
              THEN LET content == kids[k].children[1].value
                       first == OffsetOf(kids, k) + 2
                   IN /\ kids[k].tagName = "mark"
                      /\ Len(kids[k].children) = 1
                      /\ Len(content) >= 1
                      /\ \A j \in (first + 1)..(first + Len(content) - 1) :
                           ~IsDelimiterAt(value, j)
              ELSE /\ kids[k].type = "text"
                   /\ (tree # treeIn =>
                         Len(kids[k].value) >= 1 /\ ~HasCompleteSpan(kids[k].value))

\* C2 witness: a==a==a became plain a, one mark holding a, plain a.
C2_Witness ==
  /\ pc = "highlighted"
  /\ treeIn = <<ElementNode("p", NoProps, <<TextNode(<<"a", "=", "=", "a", "=", "=", "a">>)>>)>>
  /\ tree = <<ElementNode("p", NoProps,
                <<TextNode(<<"a">>), ElementNode("mark", NoProps, <<TextNode(<<"a">>)>>),
                  TextNode(<<"a">>)>>)>>

\* ------------------------------------------------------------- claim C3
ThemedTags == {"h1", "h2", "h3", "h4", "h5", "h6", "p", "table", "th", "td", "pre", "code"}

\* Every element node of a markup tree, at any depth.
RECURSIVE ElementsOf(_)
ElementsOf(children) ==
  UNION {IF children[i].type = "element"
           THEN {children[i]} \cup ElementsOf(children[i].children)
           ELSE {} : i \in 1..Len(children)}

\* The tokens of the raw embedded markup of a structural tree.
RECURSIVE RawTokensOf(_)
RawTokensOf(children) ==
  UNION {IF children[i].type = "html"
           THEN {children[i].value[k] : k \in 1..Len(children[i].value)}
           ELSE RawTokensOf(children[i].children) : i \in 1..Len(children)}

OpeningTags(markup) ==
  {markup[i] : i \in {k \in 1..Len(markup) :
                        markup[k].kind = "open" /\ markup[k].tagName \in ThemedTags}}

\* C3 as claimed: in the markup a call returns, every h1-h6, p, table, th, td,
\* pre and code element carries a non-empty style attribute when inline
\* styling is enabled, and none carries a style when it is disabled.
C3_Original ==
  \A c \in DOMAIN calls :
    calls[c].pc = "done" =>
      \A t \in OpeningTags(calls[c].html) :
        IF InlineStylesOption(calls[c].options)
          THEN t.props.style # <<>>
          ELSE t.props.style = <<>>

\* C3 amended: every h1-h6, p, table, th, td, pre and code element of the
\* call's markup tree (the elements lowered from structural nodes) carries a
\* non-empty style attribute in the returned markup when inline styling is
\* enabled and no style when it is disabled; the only other such tags in the
\* returned markup are those written inside raw embedded HTML, which is
\* serialized verbatim and never styled.
C3_ThemedElements ==
  \A c \in DOMAIN calls :
    calls[c].pc = "done" =>
      LET elements == {e \in ElementsOf(calls[c].tree) : e.tagName \in ThemedTags}
          raw == RawTokensOf(calls[c].markdown)
      IN /\ \A e \in elements :
              /\ OpenToken(e.tagName, e.props) \in OpeningTags(calls[c].html)
              /\ IF InlineStylesOption(calls[c].options)
                   THEN e.props.style # <<>>
                   ELSE e.props.style = <<>>
         /\ \A t \in OpeningTags(calls[c].html) :
              \/ \E e \in elements : t = OpenToken(e.tagName, e.props)
              \/ t \in raw

\* C3 witness: a styled call returned a table whose table, th and td tags all
\* carry a style, next to a raw paragraph that carries none.
C3_Witness ==
  /\ calls[1].pc = "done"
  /\ InlineStylesOption(calls[1].options)
  /\ \A tag \in {"table", "th", "td"} :
       \E t \in OpeningTags(calls[1].html) : t.tagName = tag /\ t.props.style # <<>>
  /\ \E t \in OpeningTags(calls[1].html) : t.tagName = "p" /\ t.props.style = <<>>

\* ------------------------------------------------------------- claim C4
IsMetadata(node) == node.type \in {"yaml", "toml"}

\* Index in s of its k-th node that is no metadata block.
BodyIndex(s, k) ==
  CHOOSE j \in 1..Len(s) :
    /\ ~IsMetadata(s[j])
    /\ Cardinality({i \in 1..j : ~IsMetadata(s[i])}) = k

BodyCount(s) == Cardinality({i \in 1..Len(s) : ~IsMetadata(s[i])})

\* s without its metadata blocks, the other nodes as they are and in order.
BodyOf(s) == [k \in 1..BodyCount(s) |-> s[BodyIndex(s, k)]]

FrontMatterText == <<"t">>

\* C4: once the front-matter stripping pass has run, the call's structural
\* tree holds no top-level yaml or toml node and is exactly the other
\* top-level nodes of the parsed document, unchanged and in their order; the
\* markup the call returns holds nothing of a front-matter block and is the
\* markup of the document's body nodes alone.
C4_FrontmatterStripped ==
  \A c \in DOMAIN calls :
    /\ calls[c].pc = "stripped" =>
         /\ \A i \in 1..Len(calls[c].mdast) : ~IsMetadata(calls[c].mdast[i])
         /\ calls[c].mdast = BodyOf(calls[c].markdown)
    /\ calls[c].pc = "done" =>
         /\ \A i \in 1..Len(calls[c].html) : calls[c].html[i].value # FrontMatterText
         /\ calls[c].html = RenderMarkdownToHtml(BodyOf(calls[c].markdown), calls[c].options)

\* C4 witness: a document of a yaml block and a paragraph, past the stripping
\* pass, holds the paragraph alone.
C4_Witness ==
  /\ calls[1].pc = "stripped"
  /\ Len(calls[1].markdown) = 2
  /\ calls[1].markdown[1].type = "yaml"
  /\ calls[1].markdown[2].type = "paragraph"
  /\ calls[1].mdast = <<calls[1].markdown[2]>>

\* ------------------------------------------------------------- claim C5
\* C5: a finished call's markup is a function of its document and options
\* alone: it equals what a call on a fresh cursor returns, so any two finished
\* calls with the same document and options hold identical markup, whatever
\* other calls ran before them or between their passes.
C5_Deterministic ==
  /\ \A c \in DOMAIN calls :
       calls[c].pc = "done" =>
         calls[c].html = RenderMarkdownToHtml(calls[c].markdown, calls[c].options)
  /\ \A c \in DOMAIN calls, d \in DOMAIN calls :
       /\ calls[c].pc = "done" /\ calls[d].pc = "done"
       /\ calls[c].markdown = calls[d].markdown
       /\ calls[c].options = calls[d].options
       => calls[c].html = calls[d].html

\* C5 witness: two calls on the same highlighted document and options have
\* both finished, each with the span marked.
C5_Witness ==
  /\ Len(calls) = 2
  /\ calls[1].pc = "done" /\ calls[2].pc = "done"
  /\ calls[1].markdown = calls[2].markdown
  /\ calls[1].options = calls[2].options
  /\ \E i \in 1..Len(calls[1].html) :
       calls[1].html[i].kind = "open" /\ calls[1].html[i].tagName = "mark"

\* ------------------------------------------------------------- claim C6
ImagesBelow(node) == QuerySelectorAllTag(<<node>>, "img")

\* The items of a grid all hold an image.
HoldsImages(grid) == \A j \in 1..Len(GridItems(grid)) : ImagesBelow(GridItems(grid)[j]) # <<>>

\* The column count of a grid: the persisted attribute when it is a number,
\* the count the grouping pass derives from the number of items otherwise.
ColumnCount(grid) ==
  LET persisted == ParseInt(grid.props.columns) IN
  IF persisted.isNaN THEN SpecColumns(Len(GridItems(grid))) ELSE persisted.value

\* C6: a grid container with n >= 2 image items and a column count c >= 1 is
\* replaced, where it stood, by one table of ceil(n / c) rows with exactly c
\* cells each; image i (0-based, in item order) sits alone in row i div c,
\* column i mod c; every cell with index >= n is empty; the table carries the
\* container's source line when the container has one and none otherwise.
C6_GridBecomesTable ==
  pc \in {"converted", "returned"} =>
    LET before == ParseFromString(html)
        after == IF pc = "converted" THEN doc ELSE ParseFromString(result)
    IN /\ Len(after) = Len(before)
       /\ \A k \in 1..Len(before) :
            LET grid == before[k]
                items == GridItems(grid)
                n == Len(items)
                c == ColumnCount(grid)
                table == after[k]
                rows == Len(table.children)
            IN (IsGrid(grid) /\ n >= 2 /\ HoldsImages(grid) /\ c >= 1) =>
                 /\ table.type = "element" /\ table.tagName = "table"
                 /\ table.props.sourceLine = grid.props.sourceLine
                 /\ rows * c >= n /\ (rows - 1) * c < n
                 /\ \A r \in 1..rows :
                      /\ table.children[r].tagName = "tr"
                      /\ Len(table.children[r].children) = c
                      /\ \A col \in 1..c : table.children[r].children[col].tagName = "td"
                 /\ \A i \in 0..(n - 1) :
                      LET cell == table.children[(i \div c) + 1].children[(i % c) + 1] IN
                      /\ Len(ImagesBelow(cell)) = 1
                      /\ ImagesBelow(cell)[1].props.src = ImagesBelow(items[i + 1])[1].props.src
                      /\ ImagesBelow(cell)[1].props.alt = ImagesBelow(items[i + 1])[1].props.alt
                 /\ \A i \in n..(rows * c - 1) :
                      table.children[(i \div c) + 1].children[(i % c) + 1].children = <<>>

\* C6 witness: a grid of five images persisted with two columns and source
\* line 3 came back as a table of three rows whose sixth cell is empty.
C6_Witness ==
  /\ pc = "returned"
  /\ Len(html) > 0
  /\ LET before == ParseFromString(html)
         after == ParseFromString(result)
     IN /\ Len(before) = 1 /\ Len(after) = 1
        /\ IsGrid(before[1])
        /\ Len(GridItems(before[1])) = 5
        /\ HoldsImages(before[1])
        /\ before[1].props.columns = <<"2">>
        /\ before[1].props.sourceLine = 3
        /\ after[1].tagName = "table"
        /\ after[1].props.sourceLine = 3
        /\ Len(after[1].children) = 3
        /\ after[1].children[3].children[2].children = <<>>
        /\ ImagesBelow(after[1].children[3].children[1]) # <<>>

\* ------------------------------------------------------------- claim C7
ContainsGrid(markup) ==
  \E i \in 1..Len(markup) :
    markup[i].kind = "open" /\ markup[i].props.className = "wechat-multi-image-grid"

\* C7 as claimed: the export of markup that contains no grid container
\* returns the markup it was given, unchanged.
C7_Original ==
  (pc = "returned" /\ ~ContainsGrid(html)) => result = html

\* ------------------------------------------------------------- claim C8
\* C8: when parsing or converting throws, the export returns exactly the
\* markup it was given, whatever the conversion had done to doc by then.
C8_FailureReturnsOriginal ==
  /\ pc = "caught" => result = <<>>
  /\ pc = "recovered" => result = html

\* C8 witness: the conversion threw after it had replaced a grid by a table,
\* and the export returned the markup it was given.
C8_Witness ==
  /\ pc = "recovered"
  /\ doc # ParseFromString(html)
  /\ \E k \in 1..Len(doc) : doc[k].tagName = "table"
  /\ result = html
  /\ result # InnerHTML(doc)

\* ------------------------------------------------------------- claim C9
\* The headings of a document in document order, nested ones included.
RECURSIVE HeadingsInOrder(_)
HeadingsInOrder(children) ==
  IF children = <<>> THEN <<>>
  ELSE (IF Head(children).type = "heading" THEN <<Head(children)>> ELSE <<>>)
         \o HeadingsInOrder(Head(children).children)
         \o HeadingsInOrder(Tail(children))

JumpIssues == SelectSeq(issues, LAMBDA x : x.type = "structure" /\ Head(x.message) = "jump")

\* C9: once the headings are visited, a heading has a jump issue exactly when
\* it is not the first heading of the document and its depth exceeds the depth
\* of the heading visited just before it by more than 1, whether or not that
\* one was itself reported; each such heading has one issue, in document
\* order, naming both depths; the running depth ends as the last heading's.
C9_HeadingJumps ==
  pc \in {"headings", "links", "images", "checked"} =>
    LET hs == HeadingsInOrder(treeIn)
        jumps == {k \in 2..Len(hs) : hs[k].depth > hs[k - 1].depth + 1}
    IN /\ Len(JumpIssues) = Cardinality(jumps)
       /\ \A k \in 1..Len(hs) :
            (\E j \in 1..Len(JumpIssues) :
               JumpIssues[j].location = [line |-> hs[k].line, column |-> hs[k].column])
            <=> k \in jumps
       /\ \A j \in 1..Len(JumpIssues) :
            \E k \in jumps :
              /\ JumpIssues[j].location = [line |-> hs[k].line, column |-> hs[k].column]
              /\ JumpIssues[j].message = <<"jump", Digit(hs[k - 1].depth), Digit(hs[k].depth)>>
              /\ Cardinality({m \in jumps : m < k}) = j - 1
       /\ lastHeadingDepth = IF hs = <<>> THEN 0 ELSE hs[Len(hs)].depth

\* C9 witness: depth 1, then depth 4 (reported), then the nested depth 3
\* (a decrease, not reported): one jump issue, on line 2.
C9_Witness ==
  /\ pc = "checked"
  /\ Len(treeIn) = 3
  /\ treeIn[1].type = "heading" /\ treeIn[1].depth = 1
  /\ treeIn[2].type = "heading" /\ treeIn[2].depth = 4
  /\ treeIn[3].type = "blockquote"
  /\ Len(JumpIssues) = 1
  /\ JumpIssues[1].location = [line |-> 2, column |-> 1]
  /\ lastHeadingDepth = 3

\* ------------------------------------------------------------ claim C10
\* The link and image nodes of a document, at any depth.
RECURSIVE LinksAndImages(_)
LinksAndImages(children) ==
  UNION {(IF children[i].type \in {"link", "image"} THEN {children[i]} ELSE {})
           \cup LinksAndImages(children[i].children) : i \in 1..Len(children)}

IsInsecure(url) ==
  /\ Len(url) >= 7
  /\ <<url[1], url[2], url[3], url[4], url[5], url[6], url[7]>>
       = <<"h", "t", "t", "p", ":", "/", "/">>

ProtocolIssuesAt(node) ==
  SelectSeq(issues, LAMBDA x : /\ x.type = "link-protocol"
                               /\ x.location = [line |-> node.line, column |-> node.column])

\* C10: once all four visits have run, every link and every image whose URL starts
\* with http:// has exactly one link-protocol issue at its position, no other
\* link or image has one, and there are no further link-protocol issues.
C10_LinkProtocol ==
  pc = "checked" =>
    LET nodes == LinksAndImages(treeIn) IN
    /\ \A x \in nodes :
         Len(ProtocolIssuesAt(x)) = IF IsInsecure(x.url) THEN 1 ELSE 0
    /\ Len(SelectSeq(issues, LAMBDA x : x.type = "link-protocol"))
         = Cardinality({x \in nodes : IsInsecure(x.url)})

\* C10 witness: an insecure image inside a secure link is reported and the
\* link around it is not, next to an upper-case scheme that is not reported.
C10_Witness ==
  /\ pc = "checked"
  /\ \E x \in LinksAndImages(treeIn), y \in LinksAndImages(treeIn) :
       /\ x.type = "link" /\ ~IsInsecure(x.url) /\ Len(ProtocolIssuesAt(x)) = 0
       /\ y.type = "image" /\ y \in LinksAndImages(x.children)
       /\ IsInsecure(y.url) /\ Len(ProtocolIssuesAt(y)) = 1
  /\ \E z \in LinksAndImages(treeIn) : z.url = UrlUpperCase /\ Len(ProtocolIssuesAt(z)) = 0

\* ------------------------------------------------------------ claim C11
RECURSIVE ImagesIn(_)
ImagesIn(children) ==
  UNION {(IF children[i].type = "image" THEN {children[i]} ELSE {})
           \cup ImagesIn(children[i].children) : i \in 1..Len(children)}

AltIsBlank(alt) == \A k \in 1..Len(alt) : alt[k] \in {" ", "\n"}

ImageAltIssuesAt(node) ==
  SelectSeq(issues, LAMBDA x : /\ x.type = "accessibility"
                               /\ Head(x.message) = "image"
                               /\ x.location = [line |-> node.line, column |-> node.column])

\* C11: once all four visits have run, every image whose alternative text is
\* missing, empty or white space only has exactly one accessibility issue at
\* its position, whatever its URL and whatever else it is reported for, and an
\* image with other alternative text has none.
C11_ImageAlt ==
  pc = "checked" =>
    \A x \in ImagesIn(treeIn) :
      Len(ImageAltIssuesAt(x)) = IF AltIsBlank(x.alt) THEN 1 ELSE 0

\* C11 witness: three images without alternative text are all reported: a
\* local one (also an image-reference issue), an http one with a blank text
\* (also a link-protocol issue) and an https one that raises nothing else.
C11_Witness ==
  /\ pc = "checked"
  /\ \E x \in ImagesIn(treeIn), y \in ImagesIn(treeIn), z \in ImagesIn(treeIn) :
       /\ x.alt = <<>> /\ x.url = UrlHttps /\ Len(ImageAltIssuesAt(x)) = 1
       /\ y.alt = <<" ">> /\ IsInsecure(y.url) /\ Len(ImageAltIssuesAt(y)) = 1
       /\ Len(ProtocolIssuesAt(y)) = 1
       /\ z.alt = <<>> /\ z.url = <<"a", ".", "p", "n", "g">> /\ Len(ImageAltIssuesAt(z)) = 1

\* ------------------------------------------------------------ claim C12
RECURSIVE RawMarkupCount(_)
RawMarkupCount(children) ==
  IF children = <<>> THEN 0
  ELSE (IF Head(children).type = "html" THEN 1 ELSE 0)
         + RawMarkupCount(Head(children).children) + RawMarkupCount(Tail(children))

EmbedIssues == SelectSeq(issues, LAMBDA x : x.type = "html-embed")

\* C12: once all four visits have run, there are as many html-embed issues as
\* the document has raw markup nodes, nested ones included, equal nodes
\* counted each; before the last visit there is none.
C12_HtmlEmbed ==
  /\ pc = "checked" => Len(EmbedIssues) = RawMarkupCount(treeIn)
  /\ pc \in {"input", "headings", "links", "images"} => Len(EmbedIssues) = 0

\* C12 witness: a document with raw markup at the top level twice and once
\* inside a blockquote has three html-embed issues.
C12_Witness ==
  /\ pc = "checked"
  /\ Len(treeIn) = 3
  /\ treeIn[1].type = "html" /\ treeIn[2].type = "blockquote" /\ treeIn[3].type = "html"
  /\ treeIn[1].value = treeIn[3].value
  /\ Len(EmbedIssues) = 3

\* ------------------------------------------------------------ claim C13
\* First positions of the maximal runs of s.
RunStarts(s) == {a \in 1..Len(s) : IsRunElement(s[a]) /\ RunStart(s, a) = a}

\* Image-bearing siblings (an img, or a paragraph of images only) in the run at a.
ImageBearingCount(s, a) ==
  Cardinality({k \in a..RunEnd(s, a) : Len(ExtractImagesFromNode(s[k])) > 0})

\* The run starting at a stands in the output exactly as it stood in the input.
RunUntouched(a) ==
  LET shift == ConsumedBefore(treeIn, a) IN
  \A k \in a..RunEnd(treeIn, a) :
    /\ k - shift \in 1..Len(tree)
    /\ tree[k - shift] = treeIn[k]

\* C13 as worded: a run holding fewer than 2 image-bearing sibling nodes yields
\* no grid container and is left as it was.
C13_Original ==
  pc = "grouped" =>
    \A a \in RunStarts(treeIn) :
      ImageBearingCount(treeIn, a) < 2 => RunUntouched(a)

\* C13: grouping fires only for runs holding 2 or more images in total, counted
\* over the run's image-bearing nodes (a paragraph of images counts each of its
\* images): a run holding fewer than 2 images is left exactly as it was, every
\* grid container wraps at least 2 images, and a sibling list without a run of
\* 2 or more images leaves the pass unchanged.
C13_GroupingThreshold ==
  pc = "grouped" =>
    /\ \A a \in RunStarts(treeIn) :
         RunImageCount(treeIn, a) < 2 => RunUntouched(a)
    /\ \A i \in 1..Len(tree) : IsGridContainer(tree[i]) => Len(tree[i].children) >= 2
    /\ (QualifyingRuns(treeIn) = {} => tree = treeIn)

\* C13 witness: one output holds a run of a single image left as it was and a
\* run of a single paragraph with several images turned into a container.
C13_Witness ==
  /\ pc = "grouped"
  /\ \E a, b \in RunStarts(treeIn) :
       /\ RunImageCount(treeIn, a) = 1
       /\ RunUntouched(a)
       /\ ~IsGridContainer(tree[a - ConsumedBefore(treeIn, a)])
       /\ ImageBearingCount(treeIn, b) = 1
       /\ RunImageCount(treeIn, b) >= 2
       /\ IsGridContainer(tree[b - ConsumedBefore(treeIn, b)])

\* ------------------------------------------------------------ claim C14
IsMark(node) == node.type = "element" /\ node.tagName = "mark"

\* Adjacent text nodes of a sibling list joined into one.
RECURSIVE MergeText(_)
MergeText(kids) ==
  IF Len(kids) < 2 THEN kids
  ELSE IF kids[1].type = "text" /\ kids[2].type = "text"
    THEN MergeText(<<TextNode(kids[1].value \o kids[2].value)>> \o SubSeq(kids, 3, Len(kids)))
  ELSE <<kids[1]>> \o MergeText(Tail(kids))

\* A highlighted sibling list read back: every mark is written as the text it
\* came from, at the place where it stands, and the pieces are joined.
RECURSIVE Unmarked(_)
Unmarked(kids) ==
  MergeText([k \in 1..Len(kids) |->
               IF IsMark(kids[k]) THEN TextNode(WrittenForm(kids[k]))
               ELSE IF kids[k].type = "element"
                 THEN [kids[k] EXCEPT !.children = Unmarked(@)]
               ELSE kids[k]])

RECURSIVE Merged(_)
Merged(kids) ==
  MergeText([k \in 1..Len(kids) |->
               IF kids[k].type = "element" THEN [kids[k] EXCEPT !.children = Merged(@)]
               ELSE kids[k]])

\* What makes an image the image it is: its attributes apart from the style
\* and loading hints the wrapper adds.
ImageIdentity(image) == [image.props EXCEPT !.style = <<>>, !.loading = ""]

\* The images of the run starting at a, in sibling order.
RunImages(s, a) ==
  Flatten([k \in 1..(RunEnd(s, a) - a + 1) |->
             LET found == ExtractImagesFromNode(s[a + k - 1]) IN
             [j \in 1..Len(found) |-> ImageIdentity(found[j])]])

\* The images a grid container wraps, in child order.
WrappedImages(container) ==
  [i \in 1..Len(container.children) |->
     ImageIdentity(container.children[i].children[1])]

InQualifyingRun(s, k) ==
  IsRunElement(s[k]) /\ RunStart(s, k) \in QualifyingRuns(s)

\* The highlight pass read back gives the tree it started from: nothing moved,
\* nothing was dropped, each text node stands replaced where it stood.
HighlightKeepsOrder == pc = "highlighted" => Unmarked(tree) = Merged(treeIn)

\* The grouping pass keeps every sibling outside a qualifying run, unchanged and
\* in order, and puts one container at the place of each qualifying run, wrapping
\* the run's images, each once, in their order.
GroupingKeepsOrder ==
  pc = "grouped" =>
    /\ Len(tree) = Len(treeIn) - ConsumedBefore(treeIn, Len(treeIn) + 1)
    /\ \A k \in 1..Len(treeIn) :
         LET pos == k - ConsumedBefore(treeIn, k) IN
         IF InQualifyingRun(treeIn, k)
           THEN RunStart(treeIn, k) = k =>
                  /\ IsGridContainer(tree[pos])
                  /\ \A i \in 1..Len(tree[pos].children) :
                       /\ tree[pos].children[i].props.className = "wechat-multi-image-item"
                       /\ Len(tree[pos].children[i].children) = 1
                  /\ WrappedImages(tree[pos]) = RunImages(treeIn, k)
           ELSE tree[pos] = treeIn[k]

\* C14 as worded: on top of the above, each pass puts a single node in the
\* place of what it replaces, so no sibling list grows in either pass.
C14_Original ==
  /\ HighlightKeepsOrder
  /\ GroupingKeepsOrder
  /\ (pc \in {"highlighted", "grouped"} =>
        /\ Len(tree) <= Len(treeIn)
        /\ \A i \in 1..Len(tree) :
             (tree[i].type = "element" /\ ~IsGridContainer(tree[i])) =>
               Len(tree[i].children) <= Len(treeIn[i].children))

\* C14: no pass reorders nodes.  After the highlight pass the tree reads back,
\* mark by mark, as the tree before it; after the grouping pass every sibling
\* outside a grouped run stands unchanged and in order, and each grid container
\* stands at the position of its run and wraps exactly the run's images, each
\* once, in their original order.
C14_NoReordering == HighlightKeepsOrder /\ GroupingKeepsOrder

\* C14 witness: after both passes a paragraph whose text was split around a
\* mark still stands before the container that took the place of a run of
\* several siblings.
C14_Witness ==
  /\ pc = "grouped"
  /\ Len(tree) < Len(treeIn)
  /\ \E i, j \in 1..Len(tree) :
       /\ i < j
       /\ tree[i].type = "element" /\ tree[i].tagName = "p"
       /\ Len(tree[i].children) = 3
       /\ IsMark(tree[i].children[2])
       /\ IsGridContainer(tree[j])
       /\ Len(tree[j].children) = 2

\* ------------------------------------------------------------ claim C15
\* The attribute a node must carry after a run, given the node before it.
ExpectedSourceLine(before) ==
  IF before.sourceLine # 0 THEN before.sourceLine
  ELSE IF before.type \in HighlightableTypes /\ before.line # 0 THEN before.line
  ELSE 0

\* after is before with every node's attribute as expected and nothing else
\* touched, at every depth.
RECURSIVE AnnotatedFrom(_, _)
AnnotatedFrom(before, after) ==
  /\ Len(after) = Len(before)
  /\ \A i \in 1..Len(before) :
       /\ after[i].sourceLine = ExpectedSourceLine(before[i])
       /\ [after[i] EXCEPT !.sourceLine = 0, !.children = <<>>]
            = [before[i] EXCEPT !.sourceLine = 0, !.children = <<>>]
       /\ AnnotatedFrom(before[i].children, after[i].children)

\* C15: whenever the annotator runs, a node that already has a source-line
\* attribute keeps its value, an allow-listed node with a recorded start line
\* and no attribute receives that line, every other node stays without one,
\* and the second run gives the same tree as the first.
C15_FirstWriterWins ==
  /\ pc \in {"annotated", "reannotated"} => AnnotatedFrom(treeIn, tree)
  /\ pc = "reannotated" => tree = treeIn

\* C15 witness: after the second run an allow-listed block still carries the
\* line an earlier writer gave it, different from its own start line, next to
\* a nested image that received its start line from the annotator.
C15_Witness ==
  /\ pc = "reannotated"
  /\ \E i, j \in 1..Len(tree) :
       /\ tree[i].type = "heading"
       /\ tree[i].line # 0
       /\ tree[i].sourceLine # 0
       /\ tree[i].sourceLine # tree[i].line
       /\ tree[j].children # <<>>
       /\ tree[j].children[1].sourceLine = 0
       /\ tree[j].children[1].children[1].type = "image"
       /\ tree[j].children[1].children[1].sourceLine = tree[j].children[1].children[1].line

\* ------------------------------------------------------------ claim C16
\* Two trees that differ at most in the attribute maps of their elements.
RECURSIVE SameButProps(_, _)
SameButProps(before, after) ==
  /\ Len(after) = Len(before)
  /\ \A i \in 1..Len(before) :
       /\ [after[i] EXCEPT !.props = NoProps, !.children = <<>>]
            = [before[i] EXCEPT !.props = NoProps, !.children = <<>>]
       /\ (before[i].type # "element" => after[i].props = before[i].props)
       /\ SameButProps(before[i].children, after[i].children)

StylingStep(c) == calls[c].pc = "highlighted" /\ calls'[c].pc = "styled"

\* C16: no step of any render call, sequential or concurrent, changes a field
\* of a theme object the calls share; a styling step changes nothing but the
\* attribute maps of the elements of its own call's tree and leaves every
\* other call as it was.
C16_ThemeUntouched ==
  [][/\ themes' = themes
     /\ \A c \in DOMAIN calls :
          StylingStep(c) =>
            /\ SameButProps(calls[c].tree, calls'[c].tree)
            /\ \A d \in DOMAIN calls \ {c} : calls'[d] = calls[d]]_vars

\* C16 witness: two calls that share the warm-note theme object have both
\* been styled, one of them is already done, and the theme objects stand as
\* they stood before any call.
C16_Witness ==
  /\ Len(calls) = 2
  /\ calls[1].pc = "styled"
  /\ calls[2].pc = "done"
  /\ calls[1].options.theme = <<WarmNoteTheme.id>>
  /\ calls[2].options.theme = <<WarmNoteTheme.id>>
  /\ InlineStylesOption(calls[1].options) /\ InlineStylesOption(calls[2].options)
  /\ \E i \in 1..Len(calls[1].tree) :
       /\ calls[1].tree[i].type = "element"
       /\ calls[1].tree[i].props.style # <<>>
  /\ themes = ThemeObjects

\* ------------------------------------------------------------ claim C17
\* The text in the box parses and the value passes the schema.
InputValidates(input) ==
  input.parsed # <<>> /\ ThemeSchemaIssues(input.parsed[1]) = {}

\* C17: a step of applyThemeJson on text that does not parse or validate
\* keeps the custom theme, the selected theme id and the overrides and sets
\* the error message; on text that validates it sets the custom theme and
\* the selected id from the definition, empties the overrides and clears
\* the message, all in the one step.
C17_NeverPartiallyApplied ==
  [][pc' = "applyThemeJson" =>
       IF InputValidates(ui.themeJsonInput)
         THEN /\ ui'.customTheme = ui.themeJsonInput.parsed
              /\ ui'.themeId = ui.themeJsonInput.parsed[1].id.text
              /\ ui'.themeOverrides = NoOverrides
              /\ ui'.themeJsonError = <<>>
         ELSE /\ ui'.customTheme = ui.customTheme
              /\ ui'.themeId = ui.themeId
              /\ ui'.themeOverrides = ui.themeOverrides
              /\ ui'.themeJsonError # <<>>]_vars

\* C17 witness: applyThemeJson has just failed on a theme object the schema
\* rejects, and the studio still holds the custom theme applied earlier, its
\* id as the selection and a colour override.
C17_Witness ==
  /\ pc = "applyThemeJson"
  /\ ui.themeJsonError # <<>>
  /\ ui.themeJsonError[1].name = "ZodError"
  /\ ui.customTheme # <<>>
  /\ ui.themeId = "my-theme"
  /\ "primaryColor" \in DOMAIN ui.themeOverrides

\* ------------------------------------------------------------ claim C18
\* C18 as worded: only definitions whose colour map holds primary, text and
\* background pass validation, so a custom theme the studio has accepted
\* holds all three.
C18_Original ==
  ui.customTheme # <<>> =>
    RequiredColors \subseteq DOMAIN ui.customTheme[1].tokens.color

\* ------------------------------------------------------------ claim C19
\* Position a before or at position b in the document.
NotAfter(a, b) == a.line < b.line \/ (a.line = b.line /\ a.column <= b.column)

\* The visit that raised an issue: headings, links, images, raw markup.
VisitOf(issue) ==
  IF issue.type = "structure" THEN 1
  ELSE IF issue.type = "html-embed" THEN 4
  ELSE IF Head(issue.message) = "link" THEN 2
  ELSE 3

\* C19 as claimed: the returned list is in document order across all kinds:
\* of any two issues, the one whose node comes first in the document comes
\* first in the list.
C19_Original ==
  pc = "checked" =>
    \A j \in 1..Len(issues), k \in 1..Len(issues) :
      j < k => NotAfter(issues[j].location, issues[k].location)

\* C19 amended: the list holds the issues of the heading visit, then those of
\* the link visit, then those of the image visit, then those of the raw
\* markup visit; within one visit the issues are in document order.
C19_OrderedByVisit ==
  \A j \in 1..Len(issues), k \in 1..Len(issues) :
    j < k =>
      \/ VisitOf(issues[j]) < VisitOf(issues[k])
      \/ /\ VisitOf(issues[j]) = VisitOf(issues[k])
         /\ NotAfter(issues[j].location, issues[k].location)

\* C19 witness: a link on line 1 and a heading jump on line 3 are both
\* reported, the heading first.
C19_Witness ==
  /\ pc = "checked"
  /\ \E j \in 1..Len(issues), k \in 1..Len(issues) :
       /\ j < k
       /\ issues[j].type = "structure" /\ issues[j].location.line = 3
       /\ issues[k].type = "link-protocol" /\ issues[k].location.line = 1
  /\ \E j \in 1..Len(issues), k \in 1..Len(issues) :
       /\ j < k
       /\ issues[j].type = "link-protocol" /\ issues[k].type = "link-protocol"
       /\ issues[j].location.line < issues[k].location.line

\* ------------------------------------------------------------ claim C20
SkippedTags == {"code", "pre", "script", "style"}

LoweredTree(markdown) ==
  RemarkRehype(RemarkAttachSourceLine(RemarkStripFrontmatter(markdown)))

\* The cursor values a segmentation call could find on entry.
Cursors == 0..MaxText

\* C21: between the steps of the calls the shared scan cursor stands at 0,
\* and the tree a call holds after its highlight pass is the one the pass
\* gives from any cursor value whatever, and a pass that segments leaves the
\* cursor at 0 (one that meets no delimiter leaves it alone): the result
\* depends on the text values alone, whichever calls, of this render or of
\* another one in flight, ran before.
C21_StatelessSegmentation ==
  /\ regexLastIndex = 0
  /\ \A c \in DOMAIN calls :
       calls[c].pc = "highlighted" =>
         \A cursor \in Cursors :
           LET r == RehypeHighlightMark(LoweredTree(calls[c].markdown), cursor) IN
           r.children = calls[c].tree /\ r.cursor \in {0, cursor}

\* C21 witness: two renders in flight at once have both been through the
\* highlight pass, one after the other, and each holds its span as a mark.
C21_Witness ==
  /\ Len(calls) = 2
  /\ \A c \in DOMAIN calls :
       /\ calls[c].pc = "highlighted"
       /\ \E i \in 1..Len(calls[c].tree) :
            /\ calls[c].tree[i].type = "element"
            /\ \E k \in 1..Len(calls[c].tree[i].children) :
                 /\ calls[c].tree[i].children[k].type = "element"
                 /\ calls[c].tree[i].children[k].tagName = "mark"

\* ------------------------------------------------------------ claim C22
IsImage(node) == node.type = "element" /\ node.tagName = "img"

\* The three shapes the statement lists: white-space text, a bare image, a
\* paragraph whose children are images and/or white space only.
IsListedShape(node) ==
  \/ IsWhitespaceText(node)
  \/ IsImage(node)
  \/ /\ node.type = "element" /\ node.tagName = "p"
     /\ \A k \in 1..Len(node.children) :
          IsImage(node.children[k]) \/ IsWhitespaceText(node.children[k])

\* C22 as worded: a sibling list made of the three listed shapes only is one
\* run from its first to its last element, so when it holds 2 or more images
\* the pass leaves a single container wrapping all of them.
C22_Original ==
  (/\ pc = "grouped"
   /\ \A k \in 1..Len(treeIn) : IsListedShape(treeIn[k])
   /\ TotalImages(treeIn) >= 2) =>
    /\ Len(tree) = 1
    /\ IsGridContainer(tree[1])
    /\ Len(tree[1].children) = TotalImages(treeIn)

\* ------------------------------------------------------------ claim C23
\* The siblings the scan has still to examine.
Ahead == SubSeq(tree, groupIndex + 1, Len(tree))

\* While the loop runs, what lies ahead of the scan is a tail of the original
\* sibling list: no container and nothing that went into one.
ScanAheadIsOriginal ==
  /\ groupIndex <= Len(tree)
  /\ \A i \in 1..Len(Ahead) : ~IsGridContainer(Ahead[i])
  /\ Ahead = SubSeq(treeIn, Len(treeIn) - Len(Ahead) + 1, Len(treeIn))
  /\ (pc = "grouped" => groupIndex = Len(tree) /\ tree = GroupConsecutiveImagesPlugin(treeIn))

\* Every turn brings the scan closer to the end of the list, and a turn that
\* inserts a container leaves the index on the sibling right after it.
TurnAdvances ==
  /\ pc' = "scanning" => Len(tree') - groupIndex' < Len(tree) - groupIndex
  /\ tree' # tree =>
       /\ groupIndex' = groupIndex + 1
       /\ IsGridContainer(tree'[groupIndex'])
       /\ SubSeq(tree', 1, groupIndex) = SubSeq(tree, 1, groupIndex)

\* C23: the grouping scan reaches its end on every sibling list; after it
\* inserts a container it goes on at the sibling right after the container,
\* and neither a container nor a node that went into one ever lies among the
\* siblings it has still to examine.
C23_ScanTerminates ==
  /\ []ScanAheadIsOriginal
  /\ [][TurnAdvances]_vars
  /\ <>(pc = "grouped")

\* C23 witness: the scan ended after inserting a container at the head of the
\* list and a second one past the heading that followed the first run.
C23_Witness ==
  /\ pc = "grouped"
  /\ Len(tree) = 3
  /\ groupIndex = 3
  /\ IsGridContainer(tree[1])
  /\ ~IsGridContainer(tree[2])
  /\ IsGridContainer(tree[3])

\* ------------------------------------------------------------ claim C24
\* The source lines carried by the siblings of the run starting at a.
CarriedLines(s, a) ==
  {s[k].props.sourceLine : k \in {j \in a..RunEnd(s, a) :
                                    s[j].type = "element" /\ s[j].props.sourceLine # 0}}

\* C24: the container that takes the place of a run carries the smallest
\* source line carried by a sibling of the run, and carries none when no
\* sibling of the run carries one.
C24_ContainerSourceLine ==
  pc = "grouped" =>
    \A a \in QualifyingRuns(treeIn) :
      LET container == tree[a - ConsumedBefore(treeIn, a)]
          lines == CarriedLines(treeIn, a)
      IN /\ IsGridContainer(container)
         /\ IF lines = {} THEN container.props.sourceLine = 0
            ELSE /\ container.props.sourceLine \in lines
                 /\ \A line \in lines : container.props.sourceLine <= line

\* C24 witness: a run opened by a paragraph without a source line and going
\* on with paragraphs from lines 2 and 3 became a container carrying line 2.
C24_Witness ==
  /\ pc = "grouped"
  /\ Len(treeIn) = 3
  /\ treeIn[1].type = "element" /\ treeIn[1].props.sourceLine = 0
  /\ CarriedLines(treeIn, 1) = {2, 3}
  /\ Len(tree) = 1
  /\ IsGridContainer(tree[1])
  /\ tree[1].props.sourceLine = 2

\* ------------------------------------------------------------ claim C25
\* The export has handed back a result, or is at a step that ends.
ExportEnds == pc \in {"input", "parsed", "converted", "caught", "returned", "recovered"}

\* C25: whatever the markup and whatever a grid's persisted column attribute
\* holds, the export is never inside a conversion that cannot end, and a
\* conversion that was started has every grid it converts on a column count
\* that lets its row loop finish.
C25_Original ==
  /\ ExportEnds
  /\ pc = "parsed" => ~NeverEnds(doc)

\* ------------------------------------------------------------ claim C26
\* The column count the specification gives for n images.
ClaimedColumns(n) ==
  IF n = 2 \/ n = 4 THEN 2 ELSE IF n = 3 \/ n >= 5 THEN 3 ELSE 1

\* The counts of images the two functions are compared on.
ImageCounts == 0..(MaxImages + 2)

\* C26: the grouping pass and the fallback of the exporter compute the same
\* column count from the number n of images, 2 for n in {2, 4}, 3 for n = 3
\* and for n >= 5, 1 otherwise; and the rows of the table the exporter builds
\* for a grid are as wide as that count when the persisted column attribute
\* is absent or does not read as a number, and as wide as the persisted
\* number when it reads as one.
C26_OneColumnFunction ==
  /\ \A n \in ImageCounts :
       /\ ResolveGridColumns(n) = ClaimedColumns(n)
       /\ ResolveColumns(n) = ClaimedColumns(n)
  /\ pc = "converted" =>
       LET before == ParseFromString(html) IN
       \A k \in 1..Len(before) :
         LET grid == before[k]
             n == Len(GridItems(grid))
             persisted == ParseInt(grid.props.columns)
             table == doc[k]
         IN (IsConverted(grid) /\ (persisted.isNaN \/ persisted.value >= 1)) =>
              /\ table.tagName = "table"
              /\ Len(table.children) >= 1
              /\ \A r \in 1..Len(table.children) :
                   Len(table.children[r].children) =
                     IF grid.props.columns = <<>> \/ persisted.isNaN
                       THEN ResolveGridColumns(n)
                       ELSE persisted.value

\* C26 witness: a grid of four images without a column attribute was turned
\* into a table of two rows of two cells.
C26_Witness ==
  /\ pc = "converted"
  /\ LET before == ParseFromString(html) IN
       /\ Len(before) = 1
       /\ IsConverted(before[1])
       /\ Len(GridItems(before[1])) = 4
       /\ before[1].props.columns = <<>>
       /\ Len(doc) = 1
       /\ doc[1].tagName = "table"
       /\ Len(doc[1].children) = 2
       /\ \A r \in 1..2 : Len(doc[1].children[r].children) = 2


\* ------------------------------------------------------------ claim C27
\* The key names an entry the colour palette holds.
InPalette(theme, key) ==
  \E name \in {"primary", "text", "background", "muted"} :
    key = <<name>> /\ theme.color[name] # <<>>

\* The accent colour the three steps of the specification give.
AccentOf(theme) ==
  LET accentColor == theme.blockquote.accentColor IN
  IF accentColor # <<>> /\ InPalette(theme, accentColor) THEN theme.color[accentColor[1]]
  ELSE IF accentColor # <<>> THEN accentColor
  ELSE Or(theme.color.primary, <<"undefined">>)

BorderLeftOf(node) ==
  LET found == {i \in 1..Len(node.props.style) : Head(node.props.style[i]) = "border-left"}
  IN IF found = {} THEN <<>> ELSE node.props.style[CHOOSE i \in found : TRUE]

\* C27: the left border of a styled blockquote is in the palette entry that
\* accentColor names when the palette holds an entry under that key, else in
\* the accentColor value itself when one is given, else in the palette's
\* primary colour.
C27_Original ==
  pc = "styled" =>
    LET theme == themes["custom"] IN
    BorderLeftOf(tree[1]) =
      Decl("border-left",
           Px(Or(theme.blockquote.borderWidth, <<3>>)[1]) \o <<" solid ">> \o AccentOf(theme))


\* ------------------------------------------------------------ claim C28
\* The plain text of a node: the text it carries and the text of everything
\* nested in it, in document order.
RECURSIVE PlainText(_)
PlainText(node) ==
  (IF node.type \in {"text", "inlineCode"} THEN node.value ELSE <<>>)
    \o Flatten([i \in 1..Len(node.children) |-> PlainText(node.children[i])])

IsLengthIssue(issue, heading) ==
  /\ issue.type = "structure"
  /\ Head(issue.message) = "long"
  /\ issue.location = ToLocation(heading)

\* C28: once the headings are visited, a heading has a length issue exactly
\* when its plain text, text nested in emphasis or links included, is longer
\* than 48 characters.
C28_Original ==
  pc \in {"headings", "links", "images", "checked"} =>
    LET headings == NodesOfType(treeIn, "heading") IN
    \A k \in 1..Len(headings) :
      (Len(Trim(PlainText(headings[k]))) > HeadingTextLimit)
        <=> (\E j \in 1..Len(issues) : IsLengthIssue(issues[j], headings[k]))


\* ------------------------------------------------------------ claim C29
\* C29: the issues the checker returns and the heading depth it ends with
\* are those of the tree the rendering pipeline works on once the front
\* matter is stripped: a leading front-matter block adds no issue and leaves
\* the running heading depth alone.
C29_Original ==
  pc = "checked" =>
    LET rendered == RunQualityChecks(RemarkStripFrontmatter(treeIn)) IN
    /\ issues = rendered.issues
    /\ lastHeadingDepth = rendered.lastHeadingDepth

\* ------------------------------------------------------------ claim C30
AllSettled == \A k \in 1..Len(calls) : calls[k].settled

\* Preview and issue list are those of the current text and theme.
PreviewCurrent ==
  /\ ui.htmlPreview = PreviewOf(ui.markdown, ui.themeId)
  /\ ui.qualityIssues = IssuesOfText(ui.markdown)

SettledIsCurrent == (calls # NoCalls /\ ~EffectDue /\ AllSettled) => PreviewCurrent

\* A step that changes the preview or the issue list sets both from the text
\* and theme of the render started last, which has not been superseded.
SetByLatest ==
  (ui'.htmlPreview # ui.htmlPreview \/ ui'.qualityIssues # ui.qualityIssues) =>
    /\ calls # NoCalls
    /\ LET latest == calls[Len(calls)] IN
         /\ ~latest.cancelled
         /\ ~latest.settled /\ calls'[Len(calls)].settled
         /\ ui'.htmlPreview = PreviewOf(latest.markdown, latest.themeId)
         /\ ui'.qualityIssues = IssuesOfText(latest.markdown)

\* C30: the preview markup and the issue list change only when the render
\* started last settles, both then taken from that render's text and theme;
\* a superseded render changes neither; and whenever the effect has run for
\* the current text and theme and every render has settled, both are those
\* of the current text and theme.
C30_SupersededDiscarded == []SettledIsCurrent /\ [][SetByLatest]_vars

\* C30 witness: three renders were started, the first two superseded, all
\* have settled, and the preview and the issues are those of the current
\* text, which differs from the text of the first render.
C30_Witness ==
  /\ Len(calls) = 3
  /\ AllSettled
  /\ calls[1].cancelled /\ calls[2].cancelled /\ ~calls[3].cancelled
  /\ calls[1].markdown # ui.markdown
  /\ ~EffectDue
  /\ PreviewCurrent
  /\ ui.qualityIssues # <<>>
  /\ ui.htmlPreview # PreviewOf(calls[1].markdown, calls[1].themeId)

====
